---- MODULE Spec2Model ----
(***************************************************************************)
(* CSI acquisition core of WiFiVision-Counting-Tools (src/api/route.py):   *)
(* the serial handler, the CSI collector, the video recorder and the       *)
(* start/stop session controller, as a state machine.                      *)
(*                                                                         *)
(* Specifications over the same state and operators:                       *)
(*   SpecHandler    one caller driving ESP32SerialHandler.auto_connect /   *)
(*                  send_command directly, each call running to            *)
(*                  completion;                                            *)
(*   SpecCollector  one caller driving CSICollector.start / add_data /     *)
(*                  stop directly, each call running to completion, over   *)
(*                  the full set of packet lines;                          *)
(*   Spec           the threaded server: a start handler, a stop handler,  *)
(*                  the reader loop of one device and the capture loop     *)
(*                  interleave statement group by statement group;         *)
(*   SpecStarts     the same with two start handlers and no stop handler;  *)
(*   SpecDevices    the same with one start handler and two devices;       *)
(*   SpecStop       the same with one stop handler and no start handler,   *)
(*                  and SpecStopFair with the handler thread scheduled     *)
(*                  fairly;                                                *)
(*   SpecProbe      a start handler with its acknowledgement probe         *)
(*                  unfolded attempt by attempt and poll by poll;          *)
(*   SpecVideo      one caller driving VideoRecorder.start_recording /     *)
(*                  stop_recording directly beside the capture loop;       *)
(*   SpecGovernor   the capture loop with its clock, in integer ticks;     *)
(*   SpecRestart    the threaded server with two reader threads, from     *)
(*                  the moment a session is active;                        *)
(*   SpecReaders    one caller driving the collector and                   *)
(*                  start_serial_listening / stop_listening beside the     *)
(*                  reader loops, and SpecReadersFair with the reader      *)
(*                  threads scheduled fairly.                              *)
(***************************************************************************)
EXTENDS Integers, Sequences, FiniteSets, TLC

(***************************************************************************)
(* Bounds of the model.                                                    *)
(***************************************************************************)
\* elements in the bracketed subcarrier list of a generated packet line
MaxList == 2
\* data rows a session receives before the devices fall silent
MaxRows == 2

\* Python's None where the other values are strings
None == "None"

\* an attribute that holds None or a value x: <<>> or <<x>>
Nothing == <<>>

Some(x) == <<x>>

ValueOf(opt) == opt[1]

(***************************************************************************)
(* Packet lines.  A line is a sequence of symbols: the symbol "," stands   *)
(* for a comma character, every other symbol for a maximal comma-free run  *)
(* of characters.  The marker 'CSI_DATA,' is the two symbols "CSI_DATA"    *)
(* and ",".                                                                *)
(***************************************************************************)
COMMA == ","

MARKER == <<"CSI_DATA", COMMA>>

\* a variant that compares without regard to case
startswith_marker_any_case(line) ==
    /\ Len(line) >= Len(MARKER)
    /\ line[1] \in {"CSI_DATA", "csi_data"}
    /\ line[2] = COMMA

\* str.startswith('CSI_DATA,')
startswith_marker(line) ==
    /\ Len(line) >= Len(MARKER)
    /\ SubSeq(line, 1, Len(MARKER)) = MARKER

\* csi_data[9:], applied to a line that starts with the marker
strip_marker(line) == SubSeq(line, Len(MARKER) + 1, Len(line))

\* str.split(','): one field per comma plus one; a field is the (possibly
\* empty) sequence of symbols between two commas.
RECURSIVE split(_)
split(s) ==
    IF \A i \in 1..Len(s) : s[i] # COMMA
    THEN <<s>>
    ELSE LET k == CHOOSE i \in 1..Len(s) :
                    /\ s[i] = COMMA
                    /\ \A j \in 1..(i - 1) : s[j] # COMMA
         IN  <<SubSeq(s, 1, k - 1)>> \o split(SubSeq(s, k + 1, Len(s)))

\* datetime.now().isoformat(): one comma-free field
timestamp == <<"TS">>

\* row = [timestamp] + csv_data.split(',')
row_of(line) == <<timestamp>> \o split(strip_marker(line))

\* float(s) on the strings the model generates; every other string raises
\* ValueError.
FloatTable == [s \in {"-65", "-70"} |->
                 CASE s = "-65" -> -65
                   [] s = "-70" -> -70]

float_ok(field) == Len(field) = 1 /\ field[1] \in DOMAIN FloatTable

float_of(field) == FloatTable[field[1]]

\* index of the RSSI column in a row (row[3] in the source, 0-based)
rssi_index == 4

\* a variant that forgets the value when the field does not parse
rssi_after_null_on_error(prev, row) ==
    IF Len(row) >= rssi_index /\ row[rssi_index] # <<>> /\ float_ok(row[rssi_index])
    THEN Some(float_of(row[rssi_index]))
    ELSE Nothing

\* a variant that reads the column before the signal strength
rssi_after_wrong_column(prev, row) ==
    IF Len(row) >= rssi_index - 1 /\ float_ok(row[rssi_index - 1])
    THEN Some(float_of(row[rssi_index - 1]))
    ELSE prev

\* rssi_field = row[3] if len(row) > 3 else None; if rssi_field:
\* self.latest_rssi = float(rssi_field); ValueError is swallowed.
rssi_after(prev, row) ==
    IF Len(row) >= rssi_index /\ row[rssi_index] # <<>> /\ float_ok(row[rssi_index])
    THEN Some(float_of(row[rssi_index]))
    ELSE prev

\* the declared header of a session CSV
headers ==
    << <<"timestamp">>, <<"id">>, <<"mac">>, <<"rssi">>, <<"rate">>,
       <<"sig_mode">>, <<"mcs">>, <<"bandwidth">>, <<"smoothing">>,
       <<"not_sounding">>, <<"aggregation">>, <<"stbc">>, <<"fec_coding">>,
       <<"sgi">>, <<"noise_floor">>, <<"ampdu_cnt">>, <<"channel">>,
       <<"secondary_channel">>, <<"local_timestamp">>, <<"ant">>,
       <<"sig_len">>, <<"rx_state">>, <<"len">>, <<"first_word">>,
       <<"data">> >>

(***************************************************************************)
(* What a device puts on the wire (documented at src/main.py:354):         *)
(*   CSI_DATA,37,c0:5d:...,-74,11,1,4,0,1,1,1,0,0,0,-97,1,1,2,30198,0,89,  *)
(*   0,128,0,[89,16,5,0,...]                                               *)
(* i.e. the marker, 23 scalar fields and the bracketed subcarrier list,    *)
(* whose elements are themselves separated by commas.                      *)
(***************************************************************************)
\* the 23 scalar fields, the third being the signal strength
scalar_fields(rssi) ==
    <<"37", "c0:5d:89:de:0d:85", rssi, "11", "1", "4", "0", "1", "1", "1",
      "0", "0", "0", "-97", "1", "1", "2", "30198", "0", "89", "0", "128",
      "0">>

NumScalars == Len(scalar_fields("0"))

\* the comma-free pieces of a bracketed list of k elements
bracket_list(k) ==
    IF k = 0 THEN <<"[]">>
    ELSE IF k = 1 THEN <<"[89]">>
    ELSE <<"[89">> \o [i \in 1..(k - 2) |-> "16"] \o <<"5]">>

\* ','.join(pieces); an empty piece contributes no symbol
RECURSIVE join(_)
join(pieces) ==
    IF pieces = <<>> THEN <<>>
    ELSE LET h == IF Head(pieces) = "" THEN <<>> ELSE <<Head(pieces)>>
         IN  IF Len(pieces) = 1 THEN h
             ELSE h \o <<COMMA>> \o join(Tail(pieces))

\* An input describes one line: its prefix, the signal-strength text, how
\* many scalar fields it carries and its subcarrier list (-1: none).
RssiTexts == {"-65", "-70", "", "abc"}

Prefixes == {"CSI_DATA", "csi_data", ""}

\* complete lines: 23 scalar fields and a list of 0..MaxList elements
FullInputs ==
    [prefix : Prefixes, rssi : {"-70"},
     shape : {[n |-> NumScalars, list |-> k] : k \in 0..MaxList}]

\* truncated lines: id, mac and signal strength only; id and mac only
ShortInputs ==
    [prefix : Prefixes, rssi : RssiTexts, shape : {[n |-> 3, list |-> -1]}]
      \cup [prefix : {"CSI_DATA"}, rssi : {"-65"}, shape : {[n |-> 2, list |-> -1]}]

Inputs == FullInputs \cup ShortInputs

device_fields(in) ==
    SubSeq(scalar_fields(in.rssi), 1, in.shape.n)
      \o (IF in.shape.list >= 0 THEN bracket_list(in.shape.list) ELSE <<>>)

line_of(in) ==
    (IF in.prefix = "" THEN <<>> ELSE <<in.prefix, COMMA>>)
      \o join(device_fields(in))

\* a valid packet line: marker, 23 scalar fields, the bracketed list
valid_input(in) ==
    /\ in.prefix = "CSI_DATA"
    /\ in.shape.n = NumScalars
    /\ in.shape.list >= 0

(***************************************************************************)
(* State.                                                                  *)
(***************************************************************************)
\* serial ports with a compatible device, in the order comports() lists them
PortOrder == <<"COM3", "COM4">>

Devices == {PortOrder[i] : i \in 1..Len(PortOrder)}

\* distance labels a start request may carry
Distances == {"1"}

\* os.path.join(CSI_DIR, f"csi_{distance}m.csv")
csv_path(distance) == <<"csi", distance>>

CsvFiles == {csv_path(d) : d \in Distances}

VARIABLES
    collection_active,      \* module global collection_active
    csi_collector,          \* the fields of the global CSICollector
    esp32_serial_handler,   \* the fields of the global ESP32SerialHandler
    video_recorder,         \* the fields of the global VideoRecorder
    files,                  \* rows on disk, per CSV path
    device_cmd,             \* the command bytes each device received last
    start_req,              \* start_collection handlers in progress
    stop_req,               \* stop_collection handlers in progress
    readers,                \* serial_listener threads
    video_thread,           \* the _record_video thread
    video_clock,            \* time.time() and the timing locals of _record_video
    ports,                  \* compatible serial ports present on the host
    requests,               \* requests the server has received
    ret,                    \* return value of the last direct collector call
    accepted                \* add_data calls that returned True since start

vars == <<collection_active, csi_collector, esp32_serial_handler,
          video_recorder, files, device_cmd, start_req, stop_req, readers,
          video_thread, video_clock, ports, requests, ret, accepted>>

sharedVars == <<collection_active, csi_collector, esp32_serial_handler,
                video_recorder, files, device_cmd, readers, video_thread, video_clock>>

threadVars == <<start_req, stop_req, readers, video_thread, video_clock, ports, requests>>

(***************************************************************************)
(* ESP32SerialHandler                                                      *)
(***************************************************************************)
connected(h) == {h.serial_connections[i] : i \in 1..Len(h.serial_connections)}

\* is_connected()
is_connected(h) == Len(h.serial_connections) > 0

\* the ports of PortOrder from position i on that are in S
RECURSIVE ports_from(_, _)
ports_from(i, S) ==
    IF i > Len(PortOrder) THEN <<>>
    ELSE (IF PortOrder[i] \in S THEN <<PortOrder[i]>> ELSE <<>>)
           \o ports_from(i + 1, S)

\* times one port is opened in a run
MaxOpens == 2

\* the ports of S that the bound still lets open
can_open(h, S) == \A d \in S : h.serial_handles[d] < MaxOpens

\* auto_connect(), lines 63-104: `opened` are the matching ports whose
\* serial.Serial() and wake-up write succeeded, be they connected already
\* or not (opening an open port again succeeds where the platform takes no
\* exclusive lock and raises where it does).  The new Serial object is
\* stored under the device name: a new key goes to the end of the dict,
\* the value of an existing key is replaced.
\* a variant whose loop over the matching ports ends at the first port
\* that fails to open
auto_connect_stops_at_failure(h, opened) ==
    LET upto == {PortOrder[i] : i \in {k \in 1..Len(PortOrder) :
                                        \A j \in 1..k : PortOrder[j] \in opened}}
    IN  [h EXCEPT !.serial_connections = @ \o ports_from(1, upto \ connected(h)),
                  !.serial_handles = [d \in Devices |->
                                        IF d \in upto THEN @[d] + 1 ELSE @[d]]]

auto_connect(h, opened) ==
    [h EXCEPT !.serial_connections = @ \o ports_from(1, opened \ connected(h)),
              !.serial_handles = [d \in Devices |->
                                    IF d \in opened THEN @[d] + 1 ELSE @[d]]]

\* send_command(), lines 108-121: `writable` are the devices whose write and
\* flush both succeed, the ones success_count counts.
send_command_result(h, writable) == (connected(h) \cap writable) # {}

\* send_command(), line 114: f"{command}\n".encode('utf-8')
command_bytes(command) == <<command, "\n">>

\* a variant whose loop ends at the first device that raises
send_command_wire_stops_at_failure(wire, h, command, written) ==
    [d \in Devices |->
        IF \E i \in 1..Len(h.serial_connections) :
              /\ h.serial_connections[i] = d
              /\ \A j \in 1..i : h.serial_connections[j] \in written
        THEN command_bytes(command)
        ELSE wire[d]]

\* send_command(), lines 112-119: `written` are the devices whose write
\* succeeds; each connected one of them receives the bytes, whatever the
\* other devices did.
send_command_wire(wire, h, command, written) ==
    [d \in Devices |->
        IF d \in connected(h) \cap written THEN command_bytes(command)
        ELSE wire[d]]

stop_listening_skipped(h) == h

\* stop_listening(), lines 153-156
stop_listening(h) ==
    [h EXCEPT !.serial_listening = [d \in Devices |-> FALSE]]

(***************************************************************************)
(* CSICollector                                                            *)
(***************************************************************************)
\* start(), lines 308-312
start_flags(c, csv_file) ==
    [c EXCEPT !.csv_file = Some(csv_file), !.active = TRUE, !.packet_count = 0]

\* start(), lines 315-337: the handler after the optional reconnect
start_handler(h, opened) ==
    IF is_connected(h) THEN h ELSE auto_connect(h, opened)

\* start(), lines 322-330: the calls of auto_connect that start makes
start_reconnects(h) == IF is_connected(h) THEN 0 ELSE 1

\* start(), lines 348-351: open(csv_file, 'w') truncates; the header is
\* written and flushed
start_open(c) ==
    [c EXCEPT !.csv_handle = Some([path |-> ValueOf(c.csv_file), buf |-> <<>>]),
              !.csv_writer = "writer"]

start_open_files(fs, c) == [fs EXCEPT ![ValueOf(c.csv_file)] = <<headers>>]

\* add_data(), line 370
add_data_guard(c) == c.active /\ c.csv_writer # None

\* add_data(), lines 376-388
add_data_rssi(c, line) ==
    [c EXCEPT !.latest_rssi = rssi_after(@, row_of(line))]

\* add_data(), line 390: csv_writer.writerow(row)
add_data_writerow(c, line) ==
    [c EXCEPT !.csv_handle[1].buf = Append(@, row_of(line))]

\* add_data(), line 391: csv_handle.flush()
add_data_flush(c) == [c EXCEPT !.csv_handle[1].buf = <<>>]

add_data_flush_files(fs, c) ==
    [fs EXCEPT ![ValueOf(c.csv_handle).path] = @ \o ValueOf(c.csv_handle).buf]

\* add_data(), line 392
add_data_count(c, loaded) == [c EXCEPT !.packet_count = loaded + 1]

\* a variant without the marker test
add_data_accepts_any_line(c, line) == add_data_guard(c)

\* add_data() run to completion: whether it returns True
add_data_accepts(c, line) == add_data_guard(c) /\ startswith_marker(line)

\* add_data() run to completion: the collector afterwards
add_data(c, line) ==
    IF add_data_accepts(c, line)
    THEN LET c1 == add_data_writerow(add_data_rssi(c, line), line)
         IN  add_data_count(add_data_flush(c1), c1.packet_count)
    ELSE c

\* add_data() run to completion: the files afterwards
add_data_files(fs, c, line) ==
    IF add_data_accepts(c, line)
    THEN add_data_flush_files(fs, add_data_writerow(add_data_rssi(c, line), line))
    ELSE fs

stop_flags_keeps_active(c) == c

\* stop(), lines 413-414
stop_flags(c) == [c EXCEPT !.active = FALSE]

\* stop(), lines 428-431: close() flushes what is buffered
stop_close(c) ==
    IF c.csv_handle = Nothing THEN c
    ELSE [c EXCEPT !.csv_handle = Nothing, !.csv_writer = None]

stop_close_files(fs, c) ==
    IF c.csv_handle = Nothing THEN fs
    ELSE [fs EXCEPT ![ValueOf(c.csv_handle).path] = @ \o ValueOf(c.csv_handle).buf]

\* a variant that asks for a chart after every session
stop_wants_chart_always(c) == c.csv_file # Nothing

\* stop(), line 437: whether chart generation is triggered
stop_wants_chart(c) == c.csv_file # Nothing /\ c.packet_count > 0

\* stop(), lines 443-448
stop_result(c, chart_file) ==
    [packets |-> c.packet_count, csv_file |-> c.csv_file,
     chart_file |-> chart_file]

\* os.path.join(CHART_DIR, f"{base_name}_chart.png")
chart_path(csv_file) == <<"chart">> \o ValueOf(csv_file)

(***************************************************************************)
(* CSIReceiver (src/main.py), the collector of the command-line program.   *)
(***************************************************************************)
\* CSIReceiver.__init__, lines 294-313
CSIReceiver_init ==
    [running |-> FALSE, serial_mode |-> FALSE, packet_count |-> 0,
     current_csv_file |-> Nothing, csv_writer |-> None,
     csv_file_handle |-> Nothing]

\* start_serial_mode(), lines 329-346, with the distance the user typed
start_serial_mode(rv, distance) ==
    [rv EXCEPT !.running = TRUE, !.serial_mode = TRUE,
               !.current_csv_file = Some(csv_path(distance)),
               !.csv_file_handle = Some([path |-> csv_path(distance),
                                         buf |-> <<>>]),
               !.csv_writer = "writer"]

\* start_serial_mode(), lines 343-346: open(..., 'w') truncates; the
\* header is written and flushed
start_serial_mode_files(fs, distance) ==
    [fs EXCEPT ![csv_path(distance)] = <<headers>>]

\* a variant that leaves the marker in the row
process_serial_data_keeps_marker(rv, line) ==
    IF ~rv.running \/ ~rv.serial_mode \/ rv.csv_writer = None THEN rv
    ELSE [rv EXCEPT !.csv_file_handle[1].buf =
                        Append(@, <<timestamp>> \o split(line)),
                    !.packet_count = @ + 1]

\* process_serial_data(data), lines 348-367: data[9:] is cut off without a
\* test of what it is, the row goes to the writer and is not flushed;
\* writerow raises when the writer is gone and the except clause ends
\* the call
process_serial_data(rv, line) ==
    IF ~rv.running \/ ~rv.serial_mode \/ rv.csv_writer = None THEN rv
    ELSE [rv EXCEPT !.csv_file_handle[1].buf = Append(@, row_of(line)),
                    !.packet_count = @ + 1]

(***************************************************************************)
(* Construction (module import): the globals of route.py, lines 45-48 and  *)
(* 533-540.  The handler's constructor has run auto_connect once.          *)
(***************************************************************************)
CSICollector_init ==
    [active |-> FALSE, csv_file |-> Nothing, csv_writer |-> None,
     csv_handle |-> Nothing, packet_count |-> 0, latest_rssi |-> Nothing]

ESP32SerialHandler_init(opened) ==
    auto_connect([serial_connections |-> <<>>,
                  serial_handles |-> [d \in Devices |-> 0],
                  serial_listening |-> [d \in Devices |-> FALSE]], opened)

VideoRecorder_init ==
    [recording |-> FALSE, cap |-> None, out |-> None, frame_count |-> 0]

\* time.time() in clock ticks, with the timing locals of _record_video and
\* the longest read-and-write of the run; they move only where the capture
\* loop is modelled with its clock (SpecGovernor)
video_clock_init ==
    [time |-> 0, next_frame_time |-> 0, sleep_time |-> 0, slowest |-> 0]

\* attempt, check and serial_mode_success are the locals of the
\* acknowledgement probe; they move only where the probe is modelled
\* iteration by iteration (SpecProbe)
start_req_idle ==
    [pc |-> "idle", distance |-> None, video_started |-> FALSE,
     idx |-> 0, len0 |-> 0, reconnects |-> 0, ran_start |-> FALSE, outcome |-> None,
     attempt |-> 0, check |-> 0, serial_mode_success |-> FALSE]

stop_req_idle == [pc |-> "idle", result |-> Nothing, video_result |-> Nothing,
                  outcome |-> None]

\* at most this many serial_listener threads exist at a time
MaxReaders == 2

ReaderIds == 1..MaxReaders

reader_free == [pc |-> "free", port |-> None, line |-> <<>>, loaded |-> 0]

\* what a direct call returned: op names the method, val the Python value
\* ("True", "False", "None", "dict" or "raised"), result the dict of stop()
ret_none == [op |-> None, val |-> None, result |-> Nothing]

returned(op, val) == [op |-> op, val |-> val, result |-> Nothing]

\* present: the compatible ports of the host; conn: those the handler's
\* constructor connected; starters, stoppers: the request handlers the
\* server runs at a time
InitWith(present, conn, starters, stoppers, pool, served) ==
    /\ ports = present
    /\ requests = served
    /\ collection_active = FALSE
    /\ csi_collector = CSICollector_init
    /\ esp32_serial_handler = ESP32SerialHandler_init(conn)
    /\ video_recorder = VideoRecorder_init
    /\ files = [f \in CsvFiles |-> <<>>]
    /\ device_cmd = [d \in Devices |-> <<>>]
    /\ start_req = [t \in starters |-> start_req_idle]
    /\ stop_req = [t \in stoppers |-> stop_req_idle]
    /\ readers = [r \in pool |-> reader_free]
    /\ video_thread = "dead"
    /\ video_clock = video_clock_init
    /\ ret = ret_none
    /\ accepted = 0

(***************************************************************************)
(* SpecCollector: one caller driving the collector object.                 *)
(***************************************************************************)
\* the file the direct caller records into
CollectorFile == csv_path("1")

\* data rows of the current session file on disk
data_rows(fs, c) ==
    IF c.csv_file = Nothing \/ fs[ValueOf(c.csv_file)] = <<>> THEN <<>>
    ELSE Tail(fs[ValueOf(c.csv_file)])

\* CSICollector.start(csv_file), lines 304-366, run to completion.
\* open_ok: whether open() succeeds (it raises otherwise and start ends
\* there); opened: what a reconnect would connect; writable: the devices
\* that accept the command.
CSICollector_start(csv_file, open_ok, opened, writable) ==
    LET h1 == start_handler(esp32_serial_handler, opened)
        c1 == start_flags(csi_collector, csv_file)
    IN  /\ collection_active' = TRUE
        /\ esp32_serial_handler' = h1
        /\ device_cmd' = send_command_wire(device_cmd, h1, "start_listen", writable)
        /\ accepted' = 0
        /\ IF open_ok
           THEN /\ csi_collector' = start_open(c1)
                /\ files' = start_open_files(files, c1)
                /\ ret' = returned("start", "True")
           ELSE /\ csi_collector' = c1
                /\ files' = files
                /\ ret' = returned("start", "raised")
        /\ UNCHANGED <<video_recorder, threadVars>>

\* CSICollector.add_data(line), lines 368-406, run to completion
CSICollector_add_data(in) ==
    /\ Len(data_rows(files, csi_collector)) < MaxRows
    /\ csi_collector' = add_data(csi_collector, line_of(in))
    /\ files' = add_data_files(files, csi_collector, line_of(in))
    /\ ret' = returned("add_data",
                       IF add_data_accepts(csi_collector, line_of(in))
                       THEN "True" ELSE "False")
    /\ accepted' = IF add_data_accepts(csi_collector, line_of(in))
                   THEN accepted + 1 ELSE accepted
    /\ UNCHANGED <<collection_active, esp32_serial_handler, device_cmd,
                   video_recorder, threadVars>>

\* CSICollector.stop(), lines 408-450, run to completion.
\* chart_ok: whether chart generation, if triggered, produces a file.
CSICollector_stop(writable, chart_ok) ==
    /\ IF csi_collector.active
       THEN /\ csi_collector' = stop_close(stop_flags(csi_collector))
            /\ collection_active' = FALSE
            /\ device_cmd' = send_command_wire(device_cmd, esp32_serial_handler,
                                               "stop_listen", writable)
            /\ files' = stop_close_files(files, csi_collector)
            /\ ret' = [op |-> "stop", val |-> "dict",
                        result |-> Some(stop_result(csi_collector,
                           IF stop_wants_chart(csi_collector) /\ chart_ok
                           THEN Some(chart_path(csi_collector.csv_file))
                           ELSE Nothing))]
       ELSE /\ ret' = returned("stop", "None")
            /\ UNCHANGED <<csi_collector, collection_active, device_cmd, files>>
    /\ UNCHANGED <<esp32_serial_handler, video_recorder, accepted, threadVars>>

CollectorStart ==
    \E open_ok \in BOOLEAN, opened \in {{}, Devices}, writable \in {{}, Devices} :
        CSICollector_start(CollectorFile, open_ok, opened, writable)

CollectorAdd == \E in \in Inputs : CSICollector_add_data(in)

CollectorStop ==
    \E writable \in {{}, Devices}, chart_ok \in BOOLEAN :
        CSICollector_stop(writable, chart_ok)

InitCollector == \E conn \in {{}, Devices} : InitWith(Devices, conn, {}, {}, {}, 0)

NextCollector == CollectorStart \/ CollectorAdd \/ CollectorStop

SpecCollector == InitCollector /\ [][NextCollector]_vars

(***************************************************************************)
(* SpecHandler: one caller driving the serial handler object.              *)
(***************************************************************************)
\* the commands the program sends: "start_listen" and "stop_listen" from
\* the collector, "1" from start_collection
Commands == {"1", "start_listen", "stop_listen"}

\* ESP32SerialHandler.auto_connect(), lines 61-104, run to completion on
\* the existing handler.  enum_ok: whether comports() and the matching of
\* the ports succeed; an exception there is caught by the outer handler
\* (103-104) before any port is opened.  The method has no return
\* statement and lets no exception out.
ESP32SerialHandler_auto_connect(enum_ok, opened) ==
    /\ can_open(esp32_serial_handler, opened)
    /\ esp32_serial_handler' =
          IF enum_ok THEN auto_connect(esp32_serial_handler, opened)
          ELSE esp32_serial_handler
    /\ ret' = returned("auto_connect", "None")
    /\ UNCHANGED <<collection_active, csi_collector, video_recorder, files,
                   device_cmd, accepted, threadVars>>

\* ESP32SerialHandler.send_command(command), lines 106-121, run to
\* completion.  written: the devices whose ser.write() succeeds; flushed:
\* those of them whose ser.flush() succeeds too.
ESP32SerialHandler_send_command(command, written, flushed) ==
    /\ flushed \subseteq written
    /\ device_cmd' = send_command_wire(device_cmd, esp32_serial_handler,
                                       command, written)
    /\ ret' = returned("send_command",
                       IF send_command_result(esp32_serial_handler, flushed)
                       THEN "True" ELSE "False")
    /\ UNCHANGED <<collection_active, csi_collector, esp32_serial_handler,
                   video_recorder, files, accepted, threadVars>>

HandlerAutoConnect ==
    \E enum_ok \in BOOLEAN, opened \in SUBSET ports :
        ESP32SerialHandler_auto_connect(enum_ok, opened)

HandlerSendCommand ==
    \E command \in Commands, written \in SUBSET Devices,
       flushed \in SUBSET Devices :
        ESP32SerialHandler_send_command(command, written, flushed)

InitHandler ==
    \E conn \in SUBSET Devices : InitWith(Devices, conn, {}, {}, {}, 0)

NextHandler == HandlerAutoConnect \/ HandlerSendCommand

SpecHandler == InitHandler /\ [][NextHandler]_vars

(***************************************************************************)
(* VideoRecorder                                                           *)
(***************************************************************************)
\* frames a recording captures before the camera stalls
MaxFrames == 1

\* start_recording(), lines 185-228.  outcome: "no_frame" (no priming
\* frame: the capture is released, 199-203), "raised" (an exception once
\* the capture is open and before the recording flag is set: the handler
\* calls stop_recording, which returns at once as the flag is not set,
\* 225-228 and 266-267), "raised_thread" (an exception after the flag is
\* set, on starting the thread: stop_recording clears the flag and
\* releases capture and writer) or "ok".
start_recording(v, outcome) ==
    IF v.recording THEN v
    ELSE IF outcome = "no_frame" THEN [v EXCEPT !.cap = "released"]
    ELSE IF outcome = "raised" THEN [v EXCEPT !.cap = "open"]
    ELSE IF outcome = "raised_thread"
    THEN [v EXCEPT !.cap = None, !.out = None, !.frame_count = 0]
    ELSE [v EXCEPT !.cap = "open", !.out = "open", !.recording = TRUE,
                   !.frame_count = 0]

start_recording_result(v, outcome) == ~v.recording /\ outcome = "ok"

\* _record_video(), line 236: the loop condition
record_video_continues(v) == v.recording /\ v.cap # None /\ v.out # None

\* a variant that releases the capture and keeps the writer
stop_recording_release_keeps_writer(v) == [v EXCEPT !.cap = None]

\* stop_recording(), lines 276-282
stop_recording_release(v) == [v EXCEPT !.cap = None, !.out = None]

\* stop_recording(), lines 285-290
stop_recording_result(v) == [frame_count |-> v.frame_count]

(***************************************************************************)
(* The server: request handlers, reader loops and the capture loop run     *)
(* as threads.  Each action is one group of statements of one thread.      *)
(***************************************************************************)
\* requests the server receives in a run
MaxRequests == 3

\* lines a device sends while it streams: a packet line and a diagnostic
WireInputs ==
    {[prefix |-> "CSI_DATA", rssi |-> "-65",
      shape |-> [n |-> NumScalars, list |-> 1]],
     [prefix |-> "", rssi |-> "-65", shape |-> [n |-> 3, list |-> -1]]}

free_reader(r) ==
    /\ readers[r].pc = "free"
    /\ \A q \in DOMAIN readers : q < r => readers[q].pc # "free"

\* start_collection(), lines 753-769: what the request is answered with,
\* or "go"
start_collection_check(body_ok, active, h) ==
    IF ~body_ok THEN "error"
    ELSE IF active THEN "already_active"
    ELSE IF ~is_connected(h) THEN "no_device"
    ELSE "go"

\* the except clause of start_collection, lines 844-849
start_collection_except(t) ==
    /\ collection_active' = FALSE
    /\ start_req' = [start_req EXCEPT ![t].pc = "done", ![t].outcome = "error"]

\* start_collection(), lines 753-769
start_collection_begin(t, body_ok, distance) ==
    /\ start_req[t].pc = "idle"
    /\ requests < MaxRequests
    /\ requests' = requests + 1
    /\ LET answer == start_collection_check(body_ok, collection_active,
                                            esp32_serial_handler)
       IN  IF answer = "error" THEN start_collection_except(t)
           ELSE /\ collection_active' = collection_active
                /\ start_req' = [start_req EXCEPT ![t] =
                      IF answer = "go"
                      THEN [@ EXCEPT !.pc = "cs_flags", !.distance = distance]
                      ELSE [@ EXCEPT !.pc = "done", !.outcome = answer]]
    /\ UNCHANGED <<csi_collector, esp32_serial_handler, video_recorder, files,
                   device_cmd, stop_req, readers, video_thread, video_clock, ports, ret,
                   accepted>>

\* CSICollector.start(), lines 308-312
start_collection_flags(t) ==
    /\ start_req[t].pc = "cs_flags"
    /\ csi_collector' = start_flags(csi_collector, csv_path(start_req[t].distance))
    /\ collection_active' = TRUE
    /\ accepted' = 0
    /\ start_req' = [start_req EXCEPT ![t].pc = "cs_open", ![t].ran_start = TRUE]
    /\ UNCHANGED <<esp32_serial_handler, video_recorder, files, device_cmd,
                   stop_req, readers, video_thread, video_clock, ports, requests, ret>>

\* CSICollector.start(), lines 315-366: the start command, then the file
\* is opened and the header written and flushed; open() may raise
start_collection_open(t, opened, writable, open_ok) ==
    /\ start_req[t].pc = "cs_open"
    /\ esp32_serial_handler' = start_handler(esp32_serial_handler, opened)
    /\ device_cmd' = send_command_wire(device_cmd, esp32_serial_handler',
                                       "start_listen", writable)
    /\ IF open_ok
       THEN /\ csi_collector' = start_open(csi_collector)
            /\ files' = start_open_files(files, csi_collector)
            /\ collection_active' = collection_active
            /\ start_req' = [start_req EXCEPT
                  ![t].pc = "probe",
                  ![t].reconnects = start_reconnects(esp32_serial_handler)]
       ELSE /\ start_collection_except(t)
            /\ UNCHANGED <<csi_collector, files>>
    /\ UNCHANGED <<video_recorder, stop_req, readers, video_thread, video_clock, ports,
                   requests, ret, accepted>>

\* start_collection(), lines 786-812: the acknowledgement probe, then the
\* listen command.  answer: "ack" (an acknowledgement line was read),
\* "silent" (none within the attempts) or "raise" (a serial call raised).
start_collection_probe(t, writable, answer) ==
    /\ start_req[t].pc = "probe"
    /\ LET sent == send_command_result(esp32_serial_handler, writable)
       IN  IF sent /\ answer = "raise"
           THEN /\ start_collection_except(t)
                /\ device_cmd' = send_command_wire(device_cmd,
                                    esp32_serial_handler, "6", writable)
           ELSE /\ collection_active' = collection_active
                /\ device_cmd' = send_command_wire(device_cmd,
                                    esp32_serial_handler, "1", writable)
                /\ start_req' = [start_req EXCEPT ![t].pc = "video"]
    /\ UNCHANGED <<csi_collector, esp32_serial_handler, video_recorder, files,
                   stop_req, readers, video_thread, video_clock, ports, requests, ret,
                   accepted>>

start_collection_after_video_needs_video(video_started) ==
    IF video_started THEN "listen" ELSE "done"

\* start_collection(), lines 816-820: where the handler goes on after
\* start_recording has returned video_started
start_collection_after_video(video_started) == "listen"

\* start_collection(), lines 815-817
start_collection_video(t, outcome) ==
    /\ start_req[t].pc = "video"
    /\ video_recorder' = start_recording(video_recorder, outcome)
    /\ video_thread' = IF start_recording_result(video_recorder, outcome)
                       THEN "running" ELSE video_thread
    /\ start_req' = [start_req EXCEPT
          ![t].pc = start_collection_after_video(
                       start_recording_result(video_recorder, outcome)),
          ![t].idx = 1,
          ![t].len0 = Len(esp32_serial_handler.serial_connections),
          ![t].video_started = start_recording_result(video_recorder, outcome)]
    /\ UNCHANGED <<video_clock, collection_active, csi_collector, esp32_serial_handler,
                   files, device_cmd, stop_req, readers, ports, requests, ret,
                   accepted>>

\* start_collection(), lines 822-829: no connection to listen on
start_collection_not_listening(t) ==
    /\ csi_collector' = IF csi_collector.active
                        THEN stop_close(stop_flags(csi_collector))
                        ELSE csi_collector
    /\ collection_active' = IF csi_collector.active THEN FALSE
                            ELSE collection_active
    /\ files' = IF csi_collector.active
                THEN stop_close_files(files, csi_collector) ELSE files
    /\ video_recorder' =
          IF start_req[t].video_started /\ video_recorder.recording
          THEN stop_recording_release([video_recorder EXCEPT !.recording = FALSE])
          ELSE video_recorder
    /\ start_req' = [start_req EXCEPT ![t].pc = "done",
                                      ![t].outcome = "listen_failed"]
    /\ UNCHANGED <<esp32_serial_handler, readers>>

\* start_serial_listening(), lines 129-151: one turn of the loop over
\* serial_connections, then the answer of start_collection (lines 831-843).
\* Iterating the dict raises once it has grown since the loop began.
start_collection_listen(t) ==
    /\ start_req[t].pc = "listen"
    /\ LET conns == esp32_serial_handler.serial_connections
           i == start_req[t].idx
       IN  IF Len(conns) = 0
           THEN start_collection_not_listening(t)
           ELSE IF Len(conns) # start_req[t].len0
           THEN /\ start_collection_except(t)
                /\ UNCHANGED <<csi_collector, files, video_recorder,
                               esp32_serial_handler, readers>>
           ELSE /\ \E r \in DOMAIN readers :
                      /\ free_reader(r)
                      /\ readers' = [readers EXCEPT ![r] =
                            [reader_free EXCEPT !.pc = "top", !.port = conns[i]]]
                /\ esp32_serial_handler' =
                      [esp32_serial_handler EXCEPT !.serial_listening[conns[i]] = TRUE]
                /\ start_req' = [start_req EXCEPT ![t] =
                      IF i = Len(conns)
                      THEN [@ EXCEPT !.pc = "done", !.outcome = "success"]
                      ELSE [@ EXCEPT !.idx = i + 1]]
                /\ UNCHANGED <<collection_active, csi_collector, files,
                               video_recorder>>
    /\ UNCHANGED <<device_cmd, stop_req, video_thread, video_clock, ports, requests, ret,
                   accepted>>

\* the response has been sent; the handler thread serves the next request
start_collection_return(t) ==
    /\ start_req[t].pc = "done"
    /\ start_req' = [start_req EXCEPT ![t] = start_req_idle]
    /\ UNCHANGED <<collection_active, csi_collector, esp32_serial_handler,
                   video_recorder, files, device_cmd, stop_req, readers,
                   video_thread, video_clock, ports, requests, ret, accepted>>

\* stop_collection(), lines 857-861
stop_collection_begin(t) ==
    /\ stop_req[t].pc = "idle"
    /\ requests < MaxRequests
    /\ requests' = requests + 1
    /\ stop_req' = [stop_req EXCEPT ![t] =
          IF collection_active
          THEN [@ EXCEPT !.pc = "stop_listening"]
          ELSE [@ EXCEPT !.pc = "done", !.outcome = "no_active"]]
    /\ UNCHANGED <<collection_active, csi_collector, esp32_serial_handler,
                   video_recorder, files, device_cmd, start_req, readers,
                   video_thread, video_clock, ports, ret, accepted>>

\* stop_collection(), lines 864-865
stop_collection_listening(t) ==
    /\ stop_req[t].pc = "stop_listening"
    /\ esp32_serial_handler' = stop_listening(esp32_serial_handler)
    /\ stop_req' = [stop_req EXCEPT ![t].pc = "cstop"]
    /\ UNCHANGED <<collection_active, csi_collector, video_recorder, files,
                   device_cmd, start_req, readers, video_thread, video_clock, ports,
                   requests, ret, accepted>>

\* CSICollector.stop(), lines 412-426 (and 450): the flags, then the stop
\* command
stop_collection_flags(t, writable) ==
    /\ stop_req[t].pc = "cstop"
    /\ IF csi_collector.active
       THEN /\ csi_collector' = stop_flags(csi_collector)
            /\ collection_active' = FALSE
            /\ device_cmd' = send_command_wire(device_cmd, esp32_serial_handler,
                                               "stop_listen", writable)
            /\ stop_req' = [stop_req EXCEPT ![t].pc = "cstop_close"]
       ELSE /\ stop_req' = [stop_req EXCEPT ![t].pc = "vstop",
                                            ![t].result = Nothing]
            /\ UNCHANGED <<csi_collector, collection_active, device_cmd>>
    /\ UNCHANGED <<esp32_serial_handler, video_recorder, files, start_req,
                   readers, video_thread, video_clock, ports, requests, ret, accepted>>

\* CSICollector.stop(), lines 428-448
stop_collection_close(t, chart_ok) ==
    /\ stop_req[t].pc = "cstop_close"
    /\ csi_collector' = stop_close(csi_collector)
    /\ files' = stop_close_files(files, csi_collector)
    /\ stop_req' = [stop_req EXCEPT
          ![t].pc = "vstop",
          ![t].result = Some(stop_result(csi_collector,
                IF stop_wants_chart(csi_collector) /\ chart_ok
                THEN Some(chart_path(csi_collector.csv_file)) ELSE Nothing))]
    /\ UNCHANGED <<collection_active, esp32_serial_handler, video_recorder,
                   device_cmd, start_req, readers, video_thread, video_clock, ports,
                   requests, ret, accepted>>

\* the answer of stop_collection, lines 873-903
stop_collection_outcome(result) ==
    IF result # Nothing THEN "stopped" ELSE "stopped_none"

\* the 'status' field of the answer of stop_collection, lines 857-910
stop_collection_status(outcome) ==
    IF outcome \in {"stopped", "stopped_none"} THEN "success" ELSE "error"

\* VideoRecorder.stop_recording(), lines 266-269
stop_collection_video(t) ==
    /\ stop_req[t].pc = "vstop"
    /\ IF video_recorder.recording
       THEN /\ video_recorder' = [video_recorder EXCEPT !.recording = FALSE]
            /\ stop_req' = [stop_req EXCEPT ![t].pc = "vjoin"]
       ELSE /\ video_recorder' = video_recorder
            /\ stop_req' = [stop_req EXCEPT
                  ![t].pc = "done", ![t].video_result = Nothing,
                  ![t].outcome = stop_collection_outcome(stop_req[t].result)]
    /\ UNCHANGED <<collection_active, csi_collector, esp32_serial_handler,
                   files, device_cmd, start_req, readers, video_thread, video_clock, ports,
                   requests, ret, accepted>>

\* a variant whose join has no timeout
stop_collection_video_join_unbounded(t) ==
    /\ stop_req[t].pc = "vjoin"
    /\ video_thread = "dead"
    /\ video_recorder' = stop_recording_release(video_recorder)
    /\ stop_req' = [stop_req EXCEPT
          ![t].pc = "done",
          ![t].video_result = Some(stop_recording_result(video_recorder)),
          ![t].outcome = stop_collection_outcome(stop_req[t].result)]
    /\ UNCHANGED <<collection_active, csi_collector, esp32_serial_handler,
                   files, device_cmd, start_req, readers, video_thread, video_clock, ports,
                   requests, ret, accepted>>

\* VideoRecorder.stop_recording(), lines 272-292: join(timeout=5) returns
\* when the capture loop has ended or the five seconds are over
stop_collection_video_join(t) ==
    /\ stop_req[t].pc = "vjoin"
    /\ video_recorder' = stop_recording_release(video_recorder)
    /\ stop_req' = [stop_req EXCEPT
          ![t].pc = "done",
          ![t].video_result = Some(stop_recording_result(video_recorder)),
          ![t].outcome = stop_collection_outcome(stop_req[t].result)]
    /\ UNCHANGED <<collection_active, csi_collector, esp32_serial_handler,
                   files, device_cmd, start_req, readers, video_thread, video_clock, ports,
                   requests, ret, accepted>>

stop_collection_return(t) ==
    /\ stop_req[t].pc = "done"
    /\ stop_req' = [stop_req EXCEPT ![t] = stop_req_idle]
    /\ UNCHANGED <<collection_active, csi_collector, esp32_serial_handler,
                   video_recorder, files, device_cmd, start_req, readers,
                   video_thread, video_clock, ports, requests, ret, accepted>>

\* esp32_reconnect(), lines 1670-1673
esp32_reconnect(opened) ==
    /\ requests < MaxRequests
    /\ requests' = requests + 1
    /\ esp32_serial_handler' = auto_connect(esp32_serial_handler, opened)
    /\ UNCHANGED <<collection_active, csi_collector, video_recorder, files,
                   device_cmd, start_req, stop_req, readers, video_thread, video_clock,
                   ports, ret, accepted>>

\* _record_video(), line 236: the loop condition is tested
record_video_top ==
    /\ video_thread = "running"
    /\ video_thread' = IF record_video_continues(video_recorder)
                       THEN "reading" ELSE "dead"
    /\ UNCHANGED <<video_clock, collection_active, csi_collector, esp32_serial_handler,
                   video_recorder, files, device_cmd, start_req, stop_req,
                   readers, ports, requests, ret, accepted>>

\* _record_video(), lines 238-262: cap.read() returns.  Without a frame
\* the loop ends; with one the frame is counted and then written, and the
\* write raises, ending the loop, when the writer is gone.
record_video_read(frame_ok) ==
    /\ video_thread = "reading"
    /\ IF frame_ok
       THEN /\ video_recorder.frame_count < MaxFrames
            /\ video_recorder' = [video_recorder EXCEPT !.frame_count = @ + 1]
            /\ video_thread' = IF video_recorder.out # None
                               THEN "running" ELSE "dead"
       ELSE /\ video_recorder' = video_recorder
            /\ video_thread' = "dead"
    /\ UNCHANGED <<video_clock, collection_active, csi_collector, esp32_serial_handler,
                   files, device_cmd, start_req, stop_req, readers, ports,
                   requests, ret, accepted>>

(***************************************************************************)
(* serial_listener, lines 132-145, with the add_data call it makes.        *)
(***************************************************************************)
reader_unchanged ==
    UNCHANGED <<collection_active, esp32_serial_handler, video_recorder,
                device_cmd, start_req, stop_req, video_thread, video_clock, ports,
                requests, ret>>

\* line 133: the loop ends once the port's flag is cleared
serial_listener_top(r) ==
    /\ readers[r].pc = "top"
    /\ readers' = [readers EXCEPT ![r] =
          IF esp32_serial_handler.serial_listening[readers[r].port]
          THEN [@ EXCEPT !.pc = "poll"]
          ELSE reader_free]
    /\ UNCHANGED <<csi_collector, files, accepted>>
    /\ reader_unchanged

\* a variant in which an exception in one loop ends every loop
serial_listener_idle_ends_all(r, raised) ==
    /\ readers[r].pc = "poll"
    /\ readers' = IF raised THEN [q \in DOMAIN readers |-> reader_free]
                  ELSE [readers EXCEPT ![r].pc = "top"]
    /\ UNCHANGED <<csi_collector, files, accepted>>
    /\ reader_unchanged

\* lines 135, 142-145: nothing is waiting, or the serial call raises
serial_listener_idle(r, raised) ==
    /\ readers[r].pc = "poll"
    /\ readers' = [readers EXCEPT ![r] =
          IF raised THEN reader_free ELSE [@ EXCEPT !.pc = "top"]]
    /\ UNCHANGED <<csi_collector, files, accepted>>
    /\ reader_unchanged

\* the devices fall silent once the session file holds MaxRows data rows
wire_open ==
    Len(data_rows(files, csi_collector)) < MaxRows

\* lines 135-139: a line is read; a marker line goes to add_data
serial_listener_read(r, in) ==
    /\ readers[r].pc = "poll"
    /\ wire_open
    /\ readers' = [readers EXCEPT ![r] =
          IF startswith_marker(line_of(in))
          THEN [@ EXCEPT !.pc = "ad_guard", !.line = line_of(in)]
          ELSE @]
    /\ UNCHANGED <<csi_collector, files, accepted>>
    /\ reader_unchanged

\* add_data(), line 370
serial_listener_add_guard(r) ==
    /\ readers[r].pc = "ad_guard"
    /\ readers' = [readers EXCEPT ![r] =
          IF add_data_guard(csi_collector)
          THEN [@ EXCEPT !.pc = "ad_write"]
          ELSE [@ EXCEPT !.pc = "poll", !.line = <<>>]]
    /\ UNCHANGED <<csi_collector, files, accepted>>
    /\ reader_unchanged

\* a variant without the except clause of add_data: the exception of
\* writerow reaches the reader loop, which ends
serial_listener_add_write_raises(r) ==
    /\ readers[r].pc = "ad_write"
    /\ IF csi_collector.csv_writer # None
       THEN /\ csi_collector' = add_data_writerow(
                   add_data_rssi(csi_collector, readers[r].line), readers[r].line)
            /\ readers' = [readers EXCEPT ![r].pc = "ad_flush"]
       ELSE /\ csi_collector' = add_data_rssi(csi_collector, readers[r].line)
            /\ readers' = [readers EXCEPT ![r] = reader_free]
    /\ UNCHANGED <<files, accepted>>
    /\ reader_unchanged

\* add_data(), lines 374-390; writerow raises when the writer is gone, and
\* the except clause makes the call return False
serial_listener_add_write(r) ==
    /\ readers[r].pc = "ad_write"
    /\ IF csi_collector.csv_writer # None
       THEN /\ csi_collector' = add_data_writerow(
                   add_data_rssi(csi_collector, readers[r].line), readers[r].line)
            /\ readers' = [readers EXCEPT ![r].pc = "ad_flush"]
       ELSE /\ csi_collector' = add_data_rssi(csi_collector, readers[r].line)
            /\ readers' = [readers EXCEPT ![r].pc = "poll", ![r].line = <<>>]
    /\ UNCHANGED <<files, accepted>>
    /\ reader_unchanged

\* add_data(), lines 391-392: flush, then the read of packet_count; flush
\* raises when the handle is gone
serial_listener_add_flush(r) ==
    /\ readers[r].pc = "ad_flush"
    /\ IF csi_collector.csv_handle # Nothing
       THEN /\ csi_collector' = add_data_flush(csi_collector)
            /\ files' = add_data_flush_files(files, csi_collector)
            /\ readers' = [readers EXCEPT ![r].pc = "ad_store",
                                          ![r].loaded = csi_collector.packet_count]
       ELSE /\ readers' = [readers EXCEPT ![r].pc = "poll", ![r].line = <<>>]
            /\ UNCHANGED <<csi_collector, files>>
    /\ UNCHANGED accepted
    /\ reader_unchanged

\* add_data(), lines 392-399: the write of packet_count, return True
serial_listener_add_count(r) ==
    /\ readers[r].pc = "ad_store"
    /\ csi_collector' = add_data_count(csi_collector, readers[r].loaded)
    /\ accepted' = accepted + 1
    /\ readers' = [readers EXCEPT ![r].pc = "poll", ![r].line = <<>>,
                                  ![r].loaded = 0]
    /\ UNCHANGED files
    /\ reader_unchanged

StartCollection ==
    \E t \in DOMAIN start_req :
        \/ \E body_ok \in BOOLEAN, distance \in Distances :
               start_collection_begin(t, body_ok, distance)
        \/ start_collection_flags(t)
        \/ \E opened \in SUBSET ports, writable \in SUBSET ports,
              open_ok \in BOOLEAN :
               start_collection_open(t, opened, writable, open_ok)
        \/ \E writable \in SUBSET ports, answer \in {"ack", "silent", "raise"} :
               start_collection_probe(t, writable, answer)
        \/ \E outcome \in {"no_frame", "raised", "ok"} :
               start_collection_video(t, outcome)
        \/ start_collection_listen(t)
        \/ start_collection_return(t)

StopCollection ==
    \E t \in DOMAIN stop_req :
        \/ stop_collection_begin(t)
        \/ stop_collection_listening(t)
        \/ \E writable \in SUBSET ports : stop_collection_flags(t, writable)
        \/ \E chart_ok \in BOOLEAN : stop_collection_close(t, chart_ok)
        \/ stop_collection_video(t)
        \/ stop_collection_video_join(t)
        \/ stop_collection_return(t)

Reconnect ==
    \E opened \in SUBSET ports :
        can_open(esp32_serial_handler, opened) /\ esp32_reconnect(opened)

RecordVideo ==
    \/ record_video_top
    \/ \E frame_ok \in BOOLEAN : record_video_read(frame_ok)

SerialListener ==
    \E r \in DOMAIN readers :
        \/ serial_listener_top(r)
        \/ \E raised \in BOOLEAN : serial_listener_idle(r, raised)
        \/ \E in \in WireInputs : serial_listener_read(r, in)
        \/ serial_listener_add_guard(r)
        \/ serial_listener_add_write(r)
        \/ serial_listener_add_flush(r)
        \/ serial_listener_add_count(r)

Next == StartCollection \/ StopCollection \/ Reconnect \/ RecordVideo
          \/ SerialListener

\* a start request and a stop request at a time, one device
Init ==
    \E conn \in SUBSET {"COM3"} : InitWith({"COM3"}, conn, {"s1"}, {"p1"}, {1}, 0)

Spec == Init /\ [][Next]_vars

\* two start requests at a time and no stop request, one device
InitStarts ==
    \E conn \in SUBSET {"COM3"} :
        InitWith({"COM3"}, conn, {"s1", "s2"}, {}, ReaderIds, 1)

NextStarts == StartCollection \/ Reconnect \/ RecordVideo \/ SerialListener

SpecStarts == InitStarts /\ [][NextStarts]_vars

\* one start request at a time and no stop request, two devices
InitDevices ==
    \E conn \in {{"COM3"}, Devices} :
        InitWith(Devices, conn, {"s1"}, {}, ReaderIds, 1)

SpecDevices == InitDevices /\ [][NextStarts]_vars

(***************************************************************************)
(* SpecStop: the server with two requests, and SpecStopFair: the same      *)
(* where the thread of the stop handler is scheduled.                      *)
(***************************************************************************)
\* a step of the stop handler t after it has taken the request
stop_collection_step(t) ==
    \/ stop_collection_listening(t)
    \/ \E writable \in SUBSET ports : stop_collection_flags(t, writable)
    \/ \E chart_ok \in BOOLEAN : stop_collection_close(t, chart_ok)
    \/ stop_collection_video(t)
    \/ stop_collection_video_join(t)
    \/ stop_collection_return(t)

\* a start request and a stop request, one device
InitStop ==
    \E conn \in SUBSET {"COM3"} :
        InitWith({"COM3"}, conn, {"s1"}, {"p1"}, {1}, MaxRequests - 2)

SpecStop == InitStop /\ [][Next]_vars

\* the server runs the thread of a request handler that can take a step
FairStop == \A t \in {"p1"} : WF_vars(stop_collection_step(t))

SpecStopFair == SpecStop /\ FairStop

(***************************************************************************)
(* SpecProbe: the server with one start request, the acknowledgement probe *)
(* of start_collection (lines 786-812) taken iteration by iteration.       *)
(***************************************************************************)
\* for attempt in range(3)
ProbeAttempts == 3

\* for check in range(10)
ProbePolls == 10

\* what is left of the probe: the polls of the attempt under way and the
\* attempts not yet made, each with all its polls
probe_left(rq) ==
    (ProbeAttempts - rq.attempt) * (ProbePolls + 1)
      + (IF rq.pc = "probe_poll" THEN ProbePolls - rq.check ELSE 0)

\* lines 788-790 and 808: one attempt begins with send_command("6"); when
\* no device accepts it the attempt is over
start_collection_probe_send(t, writable) ==
    /\ start_req[t].pc = "probe"
    /\ start_req[t].attempt < ProbeAttempts
    /\ ~start_req[t].serial_mode_success
    /\ device_cmd' = send_command_wire(device_cmd, esp32_serial_handler,
                                       "6", writable)
    /\ start_req' = [start_req EXCEPT ![t] =
          IF send_command_result(esp32_serial_handler, writable)
          THEN [@ EXCEPT !.attempt = @ + 1, !.check = 0, !.pc = "probe_poll"]
          ELSE [@ EXCEPT !.attempt = @ + 1]]
    /\ UNCHANGED <<collection_active, csi_collector, esp32_serial_handler,
                   video_recorder, files, stop_req, readers, video_thread, video_clock,
                   ports, requests, ret, accepted>>

\* a variant that goes on polling until an acknowledgement is read
start_collection_probe_poll_until_ack(t, answer) ==
    /\ start_req[t].pc = "probe_poll"
    /\ IF answer = "raise"
       THEN start_collection_except(t)
       ELSE /\ collection_active' = collection_active
            /\ start_req' = [start_req EXCEPT ![t] =
                  IF answer = "ack"
                  THEN [@ EXCEPT !.serial_mode_success = TRUE, !.pc = "probe"]
                  ELSE [@ EXCEPT !.check = (@ + 1) % ProbePolls]]
    /\ UNCHANGED <<csi_collector, esp32_serial_handler, video_recorder, files,
                   device_cmd, stop_req, readers, video_thread, video_clock, ports, requests,
                   ret, accepted>>

\* lines 793-803: one poll.  answer: "ack" (a line with the
\* acknowledgement text was read), "silent" (nothing waiting, or other
\* lines) or "raise" (a serial call raised: the except clause of the
\* handler)
start_collection_probe_poll(t, answer) ==
    /\ start_req[t].pc = "probe_poll"
    /\ IF answer = "raise"
       THEN start_collection_except(t)
       ELSE /\ collection_active' = collection_active
            /\ start_req' = [start_req EXCEPT ![t] =
                  IF answer = "ack"
                  THEN [@ EXCEPT !.serial_mode_success = TRUE, !.pc = "probe"]
                  ELSE IF @.check + 1 = ProbePolls
                  THEN [@ EXCEPT !.check = @ + 1, !.pc = "probe"]
                  ELSE [@ EXCEPT !.check = @ + 1]]
    /\ UNCHANGED <<csi_collector, esp32_serial_handler, video_recorder, files,
                   device_cmd, stop_req, readers, video_thread, video_clock, ports, requests,
                   ret, accepted>>

\* lines 805-812: the loop is left on an acknowledgement or after the last
\* attempt; send_command("1") follows, its result unused
start_collection_probe_end(t, writable) ==
    /\ start_req[t].pc = "probe"
    /\ start_req[t].attempt = ProbeAttempts \/ start_req[t].serial_mode_success
    /\ device_cmd' = send_command_wire(device_cmd, esp32_serial_handler,
                                       "1", writable)
    /\ start_req' = [start_req EXCEPT ![t].pc = "video"]
    /\ UNCHANGED <<collection_active, csi_collector, esp32_serial_handler,
                   video_recorder, files, stop_req, readers, video_thread, video_clock,
                   ports, requests, ret, accepted>>

StartCollectionProbe ==
    \E t \in DOMAIN start_req :
        \/ \E body_ok \in BOOLEAN, distance \in Distances :
               start_collection_begin(t, body_ok, distance)
        \/ start_collection_flags(t)
        \/ \E opened \in SUBSET ports, writable \in SUBSET ports,
              open_ok \in BOOLEAN :
               start_collection_open(t, opened, writable, open_ok)
        \/ \E writable \in SUBSET ports : start_collection_probe_send(t, writable)
        \/ \E answer \in {"ack", "silent", "raise"} :
               start_collection_probe_poll(t, answer)
        \/ \E writable \in SUBSET ports : start_collection_probe_end(t, writable)
        \/ \E outcome \in {"no_frame", "raised", "ok"} :
               start_collection_video(t, outcome)
        \/ start_collection_listen(t)
        \/ start_collection_return(t)

\* one start request, one device
InitProbe ==
    \E conn \in SUBSET {"COM3"} :
        InitWith({"COM3"}, conn, {"s1"}, {}, {1}, MaxRequests - 1)

NextProbe == StartCollectionProbe \/ RecordVideo \/ SerialListener

SpecProbe == InitProbe /\ [][NextProbe]_vars

(***************************************************************************)
(* SpecVideo: one caller driving VideoRecorder.start_recording /           *)
(* stop_recording directly while the capture thread runs.                  *)
(***************************************************************************)
StartOutcomes == {"no_frame", "raised", "raised_thread", "ok"}

\* the recorder once the capture thread, found in state th with the
\* recording flag cleared, has run to its end: an iteration under way is
\* completed, its frame counted if cap.read() delivers one
record_video_finish(v, th, frame_ok) ==
    IF th = "reading" /\ frame_ok THEN [v EXCEPT !.frame_count = @ + 1] ELSE v

\* start_recording(distance), lines 179-228, run to completion
VideoRecorder_start_recording(outcome) ==
    /\ video_recorder' = start_recording(video_recorder, outcome)
    /\ video_thread' = IF start_recording_result(video_recorder, outcome)
                       THEN "running" ELSE video_thread
    /\ ret' = returned("start_recording",
                       IF start_recording_result(video_recorder, outcome)
                       THEN "True" ELSE "False")
    /\ UNCHANGED <<video_clock, collection_active, csi_collector, esp32_serial_handler,
                   files, device_cmd, accepted, start_req, stop_req, readers,
                   ports, requests>>

\* stop_recording(), lines 264-292, run to completion.  joined: whether
\* the capture thread ends within the five seconds of join(); frame_ok:
\* whether the cap.read() it may be in delivers a frame.
VideoRecorder_stop_recording(joined, frame_ok) ==
    /\ IF ~video_recorder.recording
       THEN /\ ret' = returned("stop_recording", "None")
            /\ UNCHANGED <<video_recorder, video_thread>>
       ELSE LET ends == joined /\ video_thread # "dead"
                v1 == [video_recorder EXCEPT !.recording = FALSE]
                v2 == IF ends THEN record_video_finish(v1, video_thread, frame_ok)
                      ELSE v1
            IN  /\ v2.frame_count <= MaxFrames
                /\ video_thread' = IF ends THEN "dead" ELSE video_thread
                /\ video_recorder' = stop_recording_release(v2)
                /\ ret' = [op |-> "stop_recording", val |-> "dict",
                           result |-> Some(stop_recording_result(v2))]
    /\ UNCHANGED <<video_clock, collection_active, csi_collector, esp32_serial_handler,
                   files, device_cmd, accepted, start_req, stop_req, readers,
                   ports, requests>>

VideoStart ==
    \E outcome \in StartOutcomes : VideoRecorder_start_recording(outcome)

VideoStop ==
    \E joined \in BOOLEAN, frame_ok \in BOOLEAN :
        VideoRecorder_stop_recording(joined, frame_ok)

InitVideo == \E conn \in SUBSET Devices : InitWith(Devices, conn, {}, {}, {}, 0)

NextVideo == VideoStart \/ VideoStop \/ RecordVideo

SpecVideo == InitVideo /\ [][NextVideo]_vars

(***************************************************************************)
(* SpecGovernor: the capture loop of _record_video with its clock, in      *)
(* integer ticks.  frame_interval ticks make one frame period; a read-     *)
(* and-write takes any number of ticks below two periods; time.sleep()     *)
(* lasts the time it is asked for.  The recording is stopped at any        *)
(* moment.                                                                 *)
(***************************************************************************)
\* clock ticks in one frame period
TicksPerFrame == 3

\* the clock reading at which the run is cut off
MaxTime == 12

\* _record_video(), lines 232-233
frame_interval == TicksPerFrame

\* ticks that cap.read(), out.write() and cv2.imwrite() take together
WorkTimes == 0..(2 * frame_interval - 1)

\* _record_video(), lines 255-256, now being what time.time() returns
record_video_deadline(c, now) ==
    [c EXCEPT !.time = now,
              !.next_frame_time = @ + frame_interval,
              !.sleep_time = c.next_frame_time + frame_interval - now]

\* a loop that sleeps one frame period after every frame
sleep_duration_fixed(c) == frame_interval

\* _record_video(), lines 257-258: how long the loop sleeps
sleep_duration(c) == IF c.sleep_time > 0 THEN c.sleep_time ELSE 0

\* _record_video(), lines 238-256: one frame is read, counted and written,
\* which takes work ticks, and the slack to the next deadline is computed
record_video_frame(work, frame_ok) ==
    /\ video_thread = "reading"
    /\ video_clock.time + work <= MaxTime
    /\ IF frame_ok
       THEN /\ video_recorder' = [video_recorder EXCEPT !.frame_count = @ + 1]
            /\ video_thread' = "sleeping"
            /\ video_clock' =
                  [record_video_deadline(video_clock, video_clock.time + work)
                      EXCEPT !.slowest = IF work > @ THEN work ELSE @]
       ELSE /\ video_thread' = "dead"
            /\ UNCHANGED <<video_recorder, video_clock>>
    /\ UNCHANGED <<collection_active, csi_collector, esp32_serial_handler,
                   files, device_cmd, start_req, stop_req, readers, ports,
                   requests, ret, accepted>>

\* _record_video(), lines 257-258
record_video_sleep ==
    /\ video_thread = "sleeping"
    /\ video_clock.time + sleep_duration(video_clock) <= MaxTime
    /\ video_clock' = [video_clock EXCEPT !.time = @ + sleep_duration(video_clock)]
    /\ video_thread' = "running"
    /\ UNCHANGED <<collection_active, csi_collector, esp32_serial_handler,
                   video_recorder, files, device_cmd, start_req, stop_req,
                   readers, ports, requests, ret, accepted>>

\* stop_recording(), lines 266-269: the flag is cleared
stop_recording_clear ==
    /\ video_recorder.recording
    /\ video_recorder' = [video_recorder EXCEPT !.recording = FALSE]
    /\ UNCHANGED <<collection_active, csi_collector, esp32_serial_handler,
                   files, device_cmd, start_req, stop_req, readers,
                   video_thread, video_clock, ports, requests, ret, accepted>>

\* stop_recording(), lines 271-292: the capture thread, which ends within
\* the iteration under way, is joined and the handles are released
stop_recording_joined ==
    /\ ~video_recorder.recording
    /\ video_recorder.cap # None
    /\ video_thread = "dead"
    /\ video_recorder' = stop_recording_release(video_recorder)
    /\ ret' = [op |-> "stop_recording", val |-> "dict",
               result |-> Some(stop_recording_result(video_recorder))]
    /\ UNCHANGED <<collection_active, csi_collector, esp32_serial_handler,
                   files, device_cmd, start_req, stop_req, readers,
                   video_thread, video_clock, ports, requests, accepted>>

GovernorFrame ==
    \E work \in WorkTimes, frame_ok \in BOOLEAN :
        record_video_frame(work, frame_ok)

\* start_recording() has returned True and the capture thread has run
\* lines 232-234 at clock reading 0
InitGovernor ==
    /\ ports = Devices
    /\ requests = 0
    /\ collection_active = FALSE
    /\ csi_collector = CSICollector_init
    /\ \E conn \in SUBSET Devices :
          esp32_serial_handler = ESP32SerialHandler_init(conn)
    /\ video_recorder = start_recording(VideoRecorder_init, "ok")
    /\ files = [f \in CsvFiles |-> <<>>]
    /\ device_cmd = [d \in Devices |-> <<>>]
    /\ start_req = [t \in {} |-> start_req_idle]
    /\ stop_req = [t \in {} |-> stop_req_idle]
    /\ readers = [r \in {} |-> reader_free]
    /\ video_thread = "running"
    /\ video_clock = video_clock_init
    /\ ret = returned("start_recording", "True")
    /\ accepted = 0

NextGovernor ==
    \/ record_video_top
    \/ GovernorFrame
    \/ record_video_sleep
    \/ stop_recording_clear
    \/ stop_recording_joined

SpecGovernor == InitGovernor /\ [][NextGovernor]_vars

(***************************************************************************)
(* SpecRestart: the threaded server from the moment a start request has    *)
(* been answered with success: the session is active, the reader loop of   *)
(* the one device runs, the video recording did not start.  A stop and a   *)
(* start request are still to come, and every reader loop the handlers     *)
(* spawn runs beside the others.                                           *)
(***************************************************************************)
InitRestart ==
    /\ ports = {"COM3"}
    /\ requests = MaxRequests - 2
    /\ collection_active = TRUE
    /\ csi_collector = start_open(start_flags(CSICollector_init, CollectorFile))
    /\ esp32_serial_handler =
          [ESP32SerialHandler_init({"COM3"})
              EXCEPT !.serial_listening["COM3"] = TRUE]
    /\ video_recorder = start_recording(VideoRecorder_init, "no_frame")
    /\ files = [f \in CsvFiles |-> <<headers>>]
    /\ \E last \in {"1", "start_listen"} :
          device_cmd = [d \in Devices |->
                          IF d = "COM3" THEN command_bytes(last) ELSE <<>>]
    /\ start_req = [t \in {"s1"} |-> start_req_idle]
    /\ stop_req = [t \in {"p1"} |-> stop_req_idle]
    /\ readers = [r \in ReaderIds |->
                    IF r = 1 THEN [reader_free EXCEPT !.pc = "top",
                                                      !.port = "COM3"]
                    ELSE reader_free]
    /\ video_thread = "dead"
    /\ video_clock = video_clock_init
    /\ ret = ret_none
    /\ accepted = 0

NextRestart == StartCollection \/ StopCollection \/ SerialListener

SpecRestart == InitRestart /\ [][NextRestart]_vars

(***************************************************************************)
(* SpecReaders: one caller driving the collector and the handler's         *)
(* start_serial_listening / stop_listening directly, each call running to  *)
(* completion, while the reader loops it spawned run concurrently.         *)
(***************************************************************************)
\* lines a device may send, after decoding and stripping: two different
\* packet lines, a diagnostic and a line with the marker in lower case
ReaderInputs ==
    WireInputs
      \cup {[prefix |-> "CSI_DATA", rssi |-> "-70", shape |-> [n |-> 3, list |-> -1]],
            [prefix |-> "csi_data", rssi |-> "-65", shape |-> [n |-> 3, list |-> -1]]}

\* the position of reader r among the free readers
free_rank(rs, r) == Cardinality({q \in DOMAIN rs : rs[q].pc = "free" /\ q <= r})

\* start_serial_listening(csi_collector), lines 127-151, run to completion:
\* for every connection, in the order of the table, the flag is set and a
\* reader thread is started
ESP32SerialHandler_start_serial_listening ==
    LET conns == esp32_serial_handler.serial_connections
    IN  /\ Cardinality({q \in DOMAIN readers : readers[q].pc = "free"}) >= Len(conns)
        /\ esp32_serial_handler' =
              [esp32_serial_handler EXCEPT !.serial_listening =
                  [d \in Devices |->
                      IF d \in connected(esp32_serial_handler) THEN TRUE ELSE @[d]]]
        /\ readers' =
              [r \in DOMAIN readers |->
                  IF readers[r].pc = "free" /\ free_rank(readers, r) <= Len(conns)
                  THEN [reader_free EXCEPT !.pc = "top",
                                           !.port = conns[free_rank(readers, r)]]
                  ELSE readers[r]]
        /\ ret' = returned("start_serial_listening",
                           IF Len(conns) > 0 THEN "True" ELSE "False")
        /\ UNCHANGED <<collection_active, csi_collector, video_recorder, files,
                       device_cmd, accepted, start_req, stop_req, video_thread, video_clock,
                       ports, requests>>

\* stop_listening(), lines 153-156, run to completion
ESP32SerialHandler_stop_listening ==
    /\ esp32_serial_handler' = stop_listening(esp32_serial_handler)
    /\ ret' = returned("stop_listening", "None")
    /\ UNCHANGED <<collection_active, csi_collector, video_recorder, files,
                   device_cmd, accepted, threadVars>>

\* one step of the reader thread r
serial_listener(r) ==
    \/ serial_listener_top(r)
    \/ \E raised \in BOOLEAN : serial_listener_idle(r, raised)
    \/ \E in \in ReaderInputs : serial_listener_read(r, in)
    \/ serial_listener_add_guard(r)
    \/ serial_listener_add_write(r)
    \/ serial_listener_add_flush(r)
    \/ serial_listener_add_count(r)

\* csi_collector.start(path), called once, where the file can be opened
ReadersCollectorStart ==
    /\ ~csi_collector.active
    /\ \E writable \in {Devices} :
          CSICollector_start(CollectorFile, TRUE, {}, writable)

ReadersStartListening == ESP32SerialHandler_start_serial_listening

ReadersStopListening == ESP32SerialHandler_stop_listening

ReadersListener == \E r \in DOMAIN readers : serial_listener(r)

InitReaders ==
    \E conn \in {{"COM3"}, Devices} :
        InitWith(Devices, conn, {}, {}, ReaderIds, 0)

NextReaders ==
    ReadersCollectorStart \/ ReadersStartListening \/ ReadersStopListening
      \/ ReadersListener

SpecReaders == InitReaders /\ [][NextReaders]_vars

\* reader thread r takes a step
serial_listener_step(r) ==
    readers[r].pc # "free" /\ readers'[r] # readers[r]

\* the scheduler runs every reader thread: a thread that has not ended
\* takes a step again and again.  A thread that has not ended can always
\* take a step, so this is weak fairness of the steps of each thread; for
\* the test of the flag at the top of the loop it is written as such.
FairReaders ==
    \A r \in ReaderIds :
        /\ WF_vars(serial_listener_top(r))
        /\ \/ []<>(readers[r].pc = "free")
           \/ []<><<serial_listener_step(r)>>_vars

SpecReadersFair == SpecReaders /\ FairReaders

(***************************************************************************)
(* Claims about add_data, under SpecCollector.                             *)
(***************************************************************************)
\* the device fields an input carries (scalar fields plus the list)
num_device_fields(in) == in.shape.n + (IF in.shape.list >= 0 THEN 1 ELSE 0)

\* wrong or missing marker, or a marker followed by too few fields
malformed_input(in) ==
    in.prefix # "CSI_DATA" \/ num_device_fields(in) < NumScalars + 1

\* rows on disk of the file the collector names
session_rows == 
    IF csi_collector.csv_file = Nothing THEN <<>>
    ELSE files[ValueOf(csi_collector.csv_file)]

\* C5: for every valid packet line, add_data on an active collector
\* appends exactly one CSV row, and the row has as many columns as the
\* declared header.
C5_ValidLineOneRowOfHeaderWidth ==
    [][\A in \in Inputs :
          (/\ ret'.op = "add_data"
           /\ valid_input(in)
           /\ add_data_guard(csi_collector)
           /\ CSICollector_add_data(in))
          => /\ Len(session_rows') = Len(session_rows) + 1
             /\ Len(session_rows'[Len(session_rows')]) = Len(headers)]_vars

\* C6: for every malformed line add_data returns rejected and writes no
\* row to the session CSV.
C6_MalformedLineRejected ==
    [][\A in \in Inputs :
          (/\ ret'.op = "add_data"
           /\ malformed_input(in)
           /\ CSICollector_add_data(in))
          => (ret'.val = "False" /\ files' = files)]_vars

\* C7: add_data on an inactive collector, or with a line that does not
\* begin with the marker, returns rejected and leaves packet_count,
\* latest_rssi and the CSV file unchanged.
C7_RejectedCallChangesNothing ==
    [][\A in \in Inputs :
          (/\ ret'.op = "add_data"
           /\ ~csi_collector.active \/ in.prefix # "CSI_DATA"
           /\ CSICollector_add_data(in))
          => /\ ret' = returned("add_data", "False")
             /\ csi_collector'.packet_count = csi_collector.packet_count
             /\ csi_collector'.latest_rssi = csi_collector.latest_rssi
             /\ files' = files]_vars

\* a line without the marker was rejected in a session that already holds
\* a counted row and a signal strength
C7_Witness ==
    /\ ret = returned("add_data", "False")
    /\ add_data_guard(csi_collector)
    /\ csi_collector.packet_count > 0
    /\ csi_collector.latest_rssi # Nothing
    /\ Len(session_rows) > 1

\* the data rows of the session file whose fourth column is a number
numeric_rows ==
    {i \in 2..Len(session_rows) :
        /\ Len(session_rows[i]) >= 4
        /\ session_rows[i][4] \in {<<"-65">>, <<"-70">>}}

last_numeric_row ==
    session_rows[CHOOSE i \in numeric_rows : \A j \in numeric_rows : j <= i]

\* the session file holds exactly two data rows, with these fourth columns
two_rows_with(first, second) ==
    /\ Len(session_rows) = 3
    /\ Len(session_rows[2]) >= 4 /\ session_rows[2][4] = first
    /\ Len(session_rows[3]) >= 4 /\ session_rows[3][4] = second

\* C8: while a session's file is open, latest_rssi is the fourth column of
\* the most recently accepted line whose field is a number; after a start
\* and the two accepted lines with -65 and then -70, packet_count is 2 and
\* latest_rssi is -70.
C8_LatestRssiIsLastNumericField ==
    csi_collector.csv_handle # Nothing =>
        /\ numeric_rows # {} =>
              csi_collector.latest_rssi =
                 Some(IF last_numeric_row[4] = <<"-65">> THEN -65 ELSE -70)
        /\ (accepted = 2 /\ two_rows_with(<<"-65">>, <<"-70">>)) =>
              /\ csi_collector.packet_count = 2
              /\ csi_collector.latest_rssi = Some(-70)

C8_Witness ==
    /\ csi_collector.csv_handle # Nothing
    /\ accepted = 2
    /\ two_rows_with(<<"-65">>, <<"-70">>)
    /\ csi_collector.packet_count = 2
    /\ csi_collector.latest_rssi = Some(-70)

\* C9: when the signal-strength field of an otherwise accepted line is
\* empty or not numeric, add_data keeps latest_rssi, writes the record,
\* increments packet_count and returns accepted.
C9_UnparsableRssiKeepsPrevious ==
    [][\A in \in Inputs :
          (/\ ret'.op = "add_data"
           /\ in.prefix = "CSI_DATA"
           /\ in.shape.n >= 3
           /\ in.rssi \in {"", "abc"}
           /\ add_data_guard(csi_collector)
           /\ CSICollector_add_data(in))
          => /\ csi_collector'.latest_rssi = csi_collector.latest_rssi
             /\ session_rows' = Append(session_rows, row_of(line_of(in)))
             /\ csi_collector'.packet_count = csi_collector.packet_count + 1
             /\ ret' = returned("add_data", "True")]_vars

\* a record with an unparsable signal strength is the last row written,
\* and the value of an earlier record is still the current one
C9_Witness ==
    /\ ret = returned("add_data", "True")
    /\ csi_collector.csv_handle # Nothing
    /\ csi_collector.packet_count = 2
    /\ two_rows_with(<<"-65">>, <<"abc">>) \/ two_rows_with(<<"-65">>, <<>>)
    /\ csi_collector.latest_rssi = Some(-65)

(***************************************************************************)
(* Claims about the session, under the server specifications.              *)
(***************************************************************************)
\* the step of handler t that runs lines 308-312 of CSICollector.start
runs_start(t) ==
    start_req[t].pc = "cs_flags" /\ start_req'[t].pc = "cs_open"

\* C1: under concurrent start requests at most one session is active at a
\* time: CSICollector.start is never run while a session is active, so no
\* second start is accepted until the session has been stopped.
C1_StartNeverRunsWhileActive ==
    [][\A t \in DOMAIN start_req : runs_start(t) => ~collection_active]_vars

\* the step in which handler t answers a start request with a failure after
\* CSICollector.start has set the flags
start_fails_after_flags(t) ==
    /\ start_req[t].pc # "done"
    /\ start_req'[t].pc = "done"
    /\ start_req'[t].ran_start
    /\ start_req'[t].outcome \in {"error", "listen_failed"}

\* C2: whenever start_collection reports failure after CSICollector.start
\* has set the flags, the rollback is complete: collection_active and
\* csi_collector.active are false, the CSV handle is closed and no reader
\* flag is set.
C2_FailedStartIsRolledBack ==
    [][\A t \in DOMAIN start_req :
          start_fails_after_flags(t) =>
              /\ ~collection_active'
              /\ ~csi_collector'.active
              /\ csi_collector'.csv_handle = Nothing
              /\ \A d \in Devices : ~esp32_serial_handler'.serial_listening[d]]_vars

\* no request is being served
quiescent ==
    /\ \A t \in DOMAIN start_req : start_req[t].pc = "idle"
    /\ \A t \in DOMAIN stop_req : stop_req[t].pc = "idle"

\* C3: in every quiescent state collection_active equals
\* csi_collector.active, and when they are false the CSV handle is closed,
\* no reader flag is set and no video recording is running.
C3_QuiescentFlagsAgree ==
    quiescent =>
        /\ collection_active = csi_collector.active
        /\ ~collection_active =>
              /\ csi_collector.csv_handle = Nothing
              /\ \A d \in Devices : ~esp32_serial_handler.serial_listening[d]
              /\ ~video_recorder.recording

\* C4: after N accepted add_data calls of a session, concurrent calls from
\* several devices included, packet_count is N.
C4_PacketCountIsAcceptedCalls ==
    csi_collector.packet_count = accepted

\* the step in which handler t takes up a start request
takes_start_request(t) ==
    start_req[t].pc = "idle" /\ start_req'[t].pc # "idle"

\* C10: a start request received while a session is active is answered
\* 'already active' and has no side effect: the flags, the collector with
\* its file and packet count, the devices, the readers and the video
\* recorder are as before.
C10_StartWhileActiveChangesNothing ==
    [][\A t \in DOMAIN start_req :
          (takes_start_request(t) /\ collection_active) =>
              /\ start_req'[t].pc = "done"
              /\ start_req'[t].outcome = "already_active"
              /\ UNCHANGED <<collection_active, csi_collector, files,
                             esp32_serial_handler, device_cmd, readers,
                             video_recorder, video_thread>>]_vars

\* C11: a start request that finds no device connected makes exactly one
\* reconnect attempt; if still no device is connected it is answered 'no
\* device connected' and the session stays idle: the flags stay false and
\* no file is opened.
C11_NoDeviceStartReconnectsOnce ==
    [][\A t \in DOMAIN start_req :
          (/\ takes_start_request(t)
           /\ ~collection_active
           /\ ~is_connected(esp32_serial_handler)
           /\ start_req'[t].outcome # "error") =>
              /\ start_req'[t].reconnects = 1
              /\ ~is_connected(esp32_serial_handler') =>
                    /\ start_req'[t].pc = "done"
                    /\ start_req'[t].outcome = "no_device"
                    /\ ~collection_active'
                    /\ UNCHANGED <<csi_collector, files>>]_vars

\* C12: CSICollector.stop on an inactive collector returns None and changes
\* nothing (no command, no file closed, no chart); on an active collector
\* it clears both active flags, closes the file and returns the packet
\* count, so that a stop following a stop changes nothing.
C12_StopIsIdempotent ==
    [][(/\ ret'.op = "stop"
        /\ \E writable \in {{}, Devices}, chart_ok \in BOOLEAN :
              CSICollector_stop(writable, chart_ok)) =>
          IF csi_collector.active
          THEN /\ ~csi_collector'.active
               /\ ~collection_active'
               /\ csi_collector'.csv_handle = Nothing
               /\ csi_collector'.csv_writer = None
               /\ ret'.val = "dict"
               /\ ValueOf(ret'.result).packets = csi_collector.packet_count
               /\ ValueOf(ret'.result).csv_file = csi_collector.csv_file
          ELSE /\ ret' = returned("stop", "None")
               /\ UNCHANGED <<csi_collector, collection_active, device_cmd,
                              files, esp32_serial_handler>>]_vars

\* a stop has answered None on a collector whose session, with a row
\* written, was stopped before
C12_Witness ==
    /\ ret = returned("stop", "None")
    /\ ~csi_collector.active
    /\ csi_collector.csv_file # Nothing
    /\ csi_collector.packet_count > 0
    /\ Len(data_rows(files, csi_collector)) > 0

\* the step in which handler t takes up a stop request
takes_stop_request(t) ==
    stop_req[t].pc = "idle" /\ stop_req'[t].pc # "idle"

\* C13: a stop request received while no session is active is answered at
\* once as a no-op with a success status, not as an error, and changes no
\* state.
C13_StopWhileIdleIsSuccessNoOp ==
    [][\A t \in DOMAIN stop_req :
          (takes_stop_request(t) /\ ~collection_active) =>
              /\ stop_req'[t].pc = "done"
              /\ stop_collection_status(stop_req'[t].outcome) = "success"
              /\ UNCHANGED <<collection_active, csi_collector, files,
                             esp32_serial_handler, device_cmd, readers,
                             video_recorder, video_thread>>]_vars

\* data rows flushed to the file at path f
flushed_rows(fs, f) == IF fs[f] = <<>> THEN <<>> ELSE Tail(fs[f])

\* C14: a data row flushed to a session CSV is never modified or removed
\* afterwards: every step leaves the flushed rows of every file in place,
\* the start of a later session with the same distance label included.
C14_FlushedRowsAreKept ==
    [][\A f \in CsvFiles :
          /\ Len(flushed_rows(files', f)) >= Len(flushed_rows(files, f))
          /\ SubSeq(flushed_rows(files', f), 1, Len(flushed_rows(files, f)))
                = flushed_rows(files, f)]_vars

\* handler t of stop requests takes a step
stop_steps(t) == stop_req'[t] # stop_req[t]

\* C15: an accepted stop request goes through its steps in this order:
\* first every reader flag is cleared, with the collector and the recorder
\* untouched; then the collector is stopped (file closed, chart triggered),
\* with the recorder untouched; then the recorder is stopped, with the
\* collector untouched; only then is the summary answered.
C15_StopStepsInOrder ==
    [][\A t \in DOMAIN stop_req :
          stop_steps(t) =>
              /\ (stop_req[t].pc = "idle" /\ collection_active) =>
                    /\ stop_req'[t].pc = "stop_listening"
                    /\ UNCHANGED <<esp32_serial_handler, csi_collector, files,
                                   video_recorder>>
              /\ stop_req[t].pc = "stop_listening" =>
                    /\ stop_req'[t].pc = "cstop"
                    /\ \A d \in Devices :
                          ~esp32_serial_handler'.serial_listening[d]
                    /\ UNCHANGED <<csi_collector, files, video_recorder>>
              /\ stop_req[t].pc \in {"cstop", "cstop_close"} =>
                    /\ stop_req'[t].pc \in {"cstop_close", "vstop"}
                    /\ stop_req[t].pc = "cstop_close" =>
                          /\ stop_req'[t].pc = "vstop"
                          /\ stop_req'[t].result # Nothing
                          /\ csi_collector'.csv_handle = Nothing
                    /\ UNCHANGED <<esp32_serial_handler, video_recorder>>
              /\ stop_req[t].pc \in {"vstop", "vjoin"} =>
                    /\ stop_req'[t].pc \in {"vjoin", "done"}
                    /\ stop_req[t].pc = "vstop" => ~video_recorder'.recording
                    /\ UNCHANGED <<esp32_serial_handler, csi_collector, files>>
              /\ (stop_req'[t].pc = "done" /\ stop_req[t].pc # "idle") =>
                    /\ stop_req[t].pc \in {"vstop", "vjoin"}
                    /\ stop_req'[t].outcome \in {"stopped", "stopped_none"}
                    /\ stop_req'[t].result = stop_req[t].result]_vars

\* a stop request has been answered with the summary of a session that
\* wrote a chart and recorded video
C15_Witness ==
    \E t \in DOMAIN stop_req :
        /\ stop_req[t].pc = "done"
        /\ stop_req[t].outcome = "stopped"
        /\ stop_req[t].video_result # Nothing
        /\ ValueOf(stop_req[t].result).chart_file # Nothing

\* stop_recording has returned and no recording has been started since
recorder_stopped(v) == ~v.recording /\ v.cap = None

\* C16: after VideoRecorder.stop_recording has returned, frame_count does
\* not change again (until a recording is started) and is the frame count
\* the stop summary reported, also when the capture loop was still running
\* at the end of the bounded join.
C16_FrameCountStableAfterStop ==
    [][/\ (recorder_stopped(video_recorder) /\ ~video_recorder'.recording) =>
              video_recorder'.frame_count = video_recorder.frame_count
       /\ \A t \in DOMAIN stop_req :
              (/\ stop_req'[t].pc = "done"
               /\ stop_req'[t].video_result # Nothing
               /\ recorder_stopped(video_recorder')) =>
                  ValueOf(stop_req'[t].video_result).frame_count
                     = video_recorder'.frame_count]_vars

\* handler t of start requests takes a step
start_steps(t) == start_req'[t] # start_req[t]

\* a serial_listener runs on port d
reader_on(rs, d) == \E r \in DOMAIN rs : rs[r].pc # "free" /\ rs[r].port = d

\* C17: a failure to start the video recording does not prevent the
\* session from becoming active: when start_recording returns false the
\* handler goes on to start the reader loops with the collector untouched,
\* spawns a reader for each connection and answers success with
\* video_recording false.
C17_VideoFailureKeepsSession ==
    [][\A t \in DOMAIN start_req :
          start_steps(t) =>
              /\ (start_req[t].pc = "video" /\ ~start_req'[t].video_started) =>
                    /\ start_req'[t].pc = "listen"
                    /\ UNCHANGED <<collection_active, csi_collector, files>>
              /\ (/\ start_req[t].pc = "listen"
                  /\ ~start_req[t].video_started
                  /\ Len(esp32_serial_handler.serial_connections)
                        = start_req[t].len0) =>
                    LET d == esp32_serial_handler.serial_connections[start_req[t].idx]
                    IN  /\ esp32_serial_handler'.serial_listening[d]
                        /\ reader_on(readers', d)
                        /\ UNCHANGED <<collection_active, csi_collector, files>>
                        /\ start_req'[t].pc = "done" =>
                              /\ start_req'[t].outcome = "success"
                              /\ ~start_req'[t].video_started]_vars

\* a start request has been answered success without video recording; the
\* collector is active and a reader runs
C17_Witness ==
    \E t \in DOMAIN start_req :
        /\ start_req[t].pc = "done"
        /\ start_req[t].outcome = "success"
        /\ ~start_req[t].video_started
        /\ ~video_recorder.recording
        /\ csi_collector.active /\ collection_active
        /\ \E d \in Devices : reader_on(readers, d)

\* the serial_listener threads that run on port d
readers_on(d) == {r \in DOMAIN readers : readers[r].pc # "free" /\ readers[r].port = d}

\* a start request has succeeded and the session is active since
session_active ==
    /\ collection_active
    /\ \A t \in DOMAIN start_req : start_req[t].pc \in {"idle", "done"}

\* C18: once a start request has succeeded and while the session stays
\* active, every connected device, those added by a reconnect during the
\* session included, has its control flag set and exactly one reader loop.
C18_ConnectedDevicesHaveReaders ==
    session_active =>
        \A d \in connected(esp32_serial_handler) :
            /\ esp32_serial_handler.serial_listening[d]
            /\ Cardinality(readers_on(d)) = 1

\* C19: a send_command call leaves the command followed by a newline on
\* every connected device whose write succeeds, whether or not the write to
\* another device failed, leaves every other device and the connection
\* table as they were, and returns True exactly when at least one connected
\* device took both the write and the flush; with no device connected it
\* returns False.
C19_SendCommandReachesEveryDevice ==
    [][\A command \in Commands, written \in SUBSET Devices,
          flushed \in SUBSET Devices :
          ESP32SerialHandler_send_command(command, written, flushed) =>
             /\ \A d \in Devices :
                   IF d \in connected(esp32_serial_handler) /\ d \in written
                   THEN device_cmd'[d] = <<command, "\n">>
                   ELSE device_cmd'[d] = device_cmd[d]
             /\ ret'.op = "send_command"
             /\ ret'.val = "True" <=>
                   \E d \in connected(esp32_serial_handler) : d \in flushed
             /\ ret'.val \in {"True", "False"}
             /\ connected(esp32_serial_handler) = {} => ret'.val = "False"
             /\ esp32_serial_handler' = esp32_serial_handler]_vars

\* both devices were connected by the constructor, in port order; every
\* write to the first has failed, the second holds a command line, and the
\* last call returned True
C19_Witness ==
    /\ esp32_serial_handler.serial_connections = PortOrder
    /\ \A d \in Devices : esp32_serial_handler.serial_handles[d] = 1
    /\ device_cmd[PortOrder[1]] = <<>>
    /\ device_cmd[PortOrder[2]] = <<"stop_listen", "\n">>
    /\ ret = returned("send_command", "True")

\* C20: an auto_connect call on an existing handler keeps every connected
\* port, in its place, and leaves the stored handle of every port that was
\* connected before the call as it was.
C20_ReconnectKeepsHandles ==
    [][\A enum_ok \in BOOLEAN, opened \in SUBSET ports :
          ESP32SerialHandler_auto_connect(enum_ok, opened) =>
             /\ Len(esp32_serial_handler'.serial_connections)
                   >= Len(esp32_serial_handler.serial_connections)
             /\ \A i \in 1..Len(esp32_serial_handler.serial_connections) :
                   esp32_serial_handler'.serial_connections[i]
                      = esp32_serial_handler.serial_connections[i]
             /\ \A d \in connected(esp32_serial_handler) :
                   esp32_serial_handler'.serial_handles[d]
                      = esp32_serial_handler.serial_handles[d]]_vars

\* C21: an auto_connect call never raises; when the enumeration succeeds,
\* every matching port whose open succeeds is in the connection table
\* afterwards, whichever other ports failed, and a port whose open failed
\* is not added; when the enumeration fails the table is unchanged.
C21_DiscoveryNeverRaises ==
    [][\A enum_ok \in BOOLEAN, opened \in SUBSET ports :
          ESP32SerialHandler_auto_connect(enum_ok, opened) =>
             /\ ret' = returned("auto_connect", "None")
             /\ enum_ok =>
                   /\ opened \subseteq connected(esp32_serial_handler')
                   /\ \A d \in ports \ opened :
                         d \in connected(esp32_serial_handler')
                            <=> d \in connected(esp32_serial_handler)
             /\ ~enum_ok => esp32_serial_handler' = esp32_serial_handler]_vars

\* a call connected the second port while the open of the first, listed
\* before it, failed; a later call connected the first
C21_Witness ==
    /\ ret.op = "auto_connect"
    /\ Len(esp32_serial_handler.serial_connections) = 2
    /\ esp32_serial_handler.serial_connections[1] = PortOrder[2]
    /\ esp32_serial_handler.serial_connections[2] = PortOrder[1]

\* the line begins with the characters CSI_DATA and a comma
begins_with_csi_data(line) ==
    Len(line) >= 2 /\ line[1] = "CSI_DATA" /\ line[2] = ","

\* the reader is inside the add_data call it made for the line it holds
in_add_data(rd) == rd.pc \in {"ad_guard", "ad_write", "ad_flush", "ad_store"}

\* C22: a reader loop that reads a line beginning with CSI_DATA, calls
\* add_data with that very line before it reads the next one, so the lines
\* reach the collector in the order read; it calls add_data for no other
\* line, and reading any other line changes neither the collector nor the
\* files; the row add_data writes is the row of the line forwarded, put
\* after the rows written before.
C22_ReaderForwardsMarkerLines ==
    [][\A r \in DOMAIN readers :
          /\ \A in \in ReaderInputs :
                serial_listener_read(r, in) =>
                   IF begins_with_csi_data(line_of(in))
                   THEN /\ readers'[r].pc = "ad_guard"
                        /\ readers'[r].line = line_of(in)
                   ELSE UNCHANGED <<readers, csi_collector, files, accepted>>
          /\ (~in_add_data(readers[r]) /\ in_add_data(readers'[r])) =>
                /\ readers[r].pc = "poll"
                /\ begins_with_csi_data(readers'[r].line)
          /\ (in_add_data(readers[r]) /\ in_add_data(readers'[r])) =>
                readers'[r].line = readers[r].line
          /\ (readers[r].pc = "ad_write" /\ readers'[r].pc = "ad_flush") =>
                /\ csi_collector.csv_handle # Nothing
                /\ ValueOf(csi_collector'.csv_handle).buf =
                      Append(ValueOf(csi_collector.csv_handle).buf,
                             <<timestamp>> \o split(strip_marker(readers[r].line)))
          /\ (readers[r].pc = "ad_flush" /\ readers'[r].pc = "ad_store") =>
                files'[CollectorFile] =
                   files[CollectorFile] \o ValueOf(csi_collector.csv_handle).buf]_vars

\* the session file holds the rows of two different packet lines, both
\* counted as accepted, while the readers of both devices run
C22_Witness ==
    /\ Len(files[CollectorFile]) = 3
    /\ files[CollectorFile][2] # files[CollectorFile][3]
    /\ accepted = 2
    /\ \A d \in Devices : reader_on(readers, d)

\* C23: when a serial call raises in the reader loop of one device, that
\* loop ends and nothing else changes: every other reader loop stays where
\* it is, every control flag keeps its value, and the collector, still
\* active if it was, and its files are untouched, so the other loops go on
\* handing their lines to it.
C23_ReadExceptionEndsOneReader ==
    [][\A r \in DOMAIN readers :
          serial_listener_idle(r, TRUE) =>
             /\ readers'[r].pc = "free"
             /\ \A q \in DOMAIN readers \ {r} : readers'[q] = readers[q]
             /\ esp32_serial_handler' = esp32_serial_handler
             /\ UNCHANGED <<collection_active, csi_collector, files, accepted>>]_vars

\* the loop of the first device has ended on an exception (its flag is
\* still set), and the loop of the second device is returning from an
\* add_data call that accepted its line
C23_Witness ==
    /\ esp32_serial_handler.serial_listening[PortOrder[1]]
    /\ ~reader_on(readers, PortOrder[1])
    /\ csi_collector.active /\ collection_active
    /\ \E q \in DOMAIN readers :
          readers[q].port = PortOrder[2] /\ readers[q].pc = "ad_store"

\* reader thread r runs on a device whose control flag is cleared
flag_cleared(r) ==
    /\ readers[r].pc # "free"
    /\ ~esp32_serial_handler.serial_listening[readers[r].port]

\* C24: under fair scheduling of the reader threads, a reader loop whose
\* device's control flag has been cleared eventually ends, whatever lines
\* the device goes on sending; and a reader thread begins to run only in a
\* call of start_serial_listening.
C24_ClearedFlagEndsReader ==
    /\ \A r \in ReaderIds : flag_cleared(r) ~> (readers[r].pc = "free")
    /\ [][\A r \in ReaderIds :
             (readers[r].pc = "free" /\ readers'[r].pc # "free") =>
                ESP32SerialHandler_start_serial_listening]_vars

\* a serial call raises in a reader loop of device d
read_failure(d) ==
    \E r \in DOMAIN readers :
        readers[r].port = d /\ serial_listener_idle(r, TRUE)

\* C25: a device on which read failures keep occurring, more of them than
\* any fixed number, is eventually removed from the connection table.
C25_ReadFailuresDestroyConnection ==
    \A d \in Devices :
        []<><<read_failure(d)>>_vars =>
            <>(d \notin connected(esp32_serial_handler))

\* C26: a stop_recording call made while the recorder is recording clears
\* the recording flag, releases the capture and the writer and returns the
\* frame count; a call made while it is not recording, such as a second
\* call, returns None and changes neither the recorder nor its thread.
C26_StopRecordingTwiceIsSafe ==
    [][\A joined \in BOOLEAN, frame_ok \in BOOLEAN :
          VideoRecorder_stop_recording(joined, frame_ok) =>
             IF video_recorder.recording
             THEN /\ ~video_recorder'.recording
                  /\ video_recorder'.cap = None
                  /\ video_recorder'.out = None
                  /\ ret'.val = "dict"
                  /\ ret'.result = Some([frame_count |-> video_recorder'.frame_count])
             ELSE /\ ret' = returned("stop_recording", "None")
                  /\ UNCHANGED <<video_recorder, video_thread>>]_vars

\* a second stop_recording call has returned None: the recorder was
\* started, the first call released its handles
C26_Witness ==
    /\ ret = returned("stop_recording", "None")
    /\ ~video_recorder.recording
    /\ video_recorder.cap = None /\ video_recorder.out = None
    /\ video_recorder.frame_count = MaxFrames

\* C27: a start_recording call that fails after it has opened the capture
\* (no priming frame, or an exception before or after the recording flag
\* is set) leaves the capture released, no writer open, the recording flag
\* clear and starts no capture loop.
C27_FailedStartReleasesHandles ==
    [][\A outcome \in {"no_frame", "raised", "raised_thread"} :
          (~video_recorder.recording /\ VideoRecorder_start_recording(outcome)) =>
             /\ ret' = returned("start_recording", "False")
             /\ video_recorder'.cap \in {None, "released"}
             /\ video_recorder'.out = None
             /\ ~video_recorder'.recording
             /\ video_thread' = video_thread]_vars

\* the handler is in the acknowledgement probe
in_probe(rq) == rq.pc \in {"probe", "probe_poll"}

\* C28: the acknowledgement probe of a start request makes at most 3
\* attempts of at most 10 polls each: every step of the probe uses up one
\* of them, whatever the devices send or accept; when the attempts are
\* used up without an acknowledgement the handler goes on to the video and
\* listening steps with the collector and the session flag as they were,
\* and the request is then answered as it is after an acknowledgement.
C28_ProbeIsBoundedAndBestEffort ==
    [][\A t \in DOMAIN start_req :
          LET rq == start_req[t]
              rq1 == start_req'[t]
          IN  /\ rq1.attempt <= 3 /\ rq1.check <= 10
              /\ (in_probe(rq) /\ in_probe(rq1) /\ rq1 # rq) =>
                    /\ probe_left(rq1) < probe_left(rq)
                    /\ probe_left(rq1) >= 0
              /\ (in_probe(rq) /\ ~in_probe(rq1)) =>
                    \/ /\ rq1.pc = "video"
                       /\ rq.attempt = 3 \/ rq.serial_mode_success
                       /\ UNCHANGED <<collection_active, csi_collector, files>>
                    \/ \E answer \in {"raise"} :
                          start_collection_probe_poll(t, answer)
              /\ (rq.pc = "probe" /\ rq.attempt = 3 /\ rq1 # rq) =>
                    rq1.pc = "video"]_vars

\* a start request has been answered success after three attempts of ten
\* polls, none of which read an acknowledgement; the session is active
C28_Witness ==
    \E t \in DOMAIN start_req :
        /\ start_req[t].pc = "done"
        /\ start_req[t].outcome = "success"
        /\ start_req[t].attempt = 3
        /\ start_req[t].check = 10
        /\ ~start_req[t].serial_mode_success
        /\ collection_active /\ csi_collector.active

\* the stop handler has accepted the request and not yet answered it
stop_accepted(rq) ==
    rq.pc \in {"stop_listening", "cstop", "cstop_close", "vstop", "vjoin"}

\* C29: under fair scheduling of its thread, a stop request that has been
\* accepted is answered, whatever the capture loop and the reader loops
\* do; its collector step leaves the session flag and the collector flag
\* clear, and no later step of the handler sets them.
C29_AcceptedStopCompletes ==
    /\ \A t \in {"p1"} :
          stop_accepted(stop_req[t]) ~>
             (stop_req[t].pc = "done" /\ stop_req[t].outcome # "error")
    /\ [][\A t \in DOMAIN stop_req :
             /\ (stop_req[t].pc = "cstop" /\ stop_req'[t].pc # "cstop") =>
                   ~collection_active' /\ ~csi_collector'.active
             /\ (stop_req[t].pc \in {"cstop_close", "vstop", "vjoin", "done"}
                   /\ stop_req'[t] # stop_req[t]) =>
                   /\ collection_active' = collection_active
                   /\ csi_collector'.active = csi_collector.active]_vars

\* a stop request has been answered while the capture loop is still
\* inside an iteration and the reader loop still runs
C29_Witness ==
    \E t \in DOMAIN stop_req :
        /\ stop_req[t].pc = "done"
        /\ stop_req[t].outcome = "stopped"
        /\ ~collection_active /\ ~csi_collector.active
        /\ video_thread = "reading"
        /\ \E d \in Devices : reader_on(readers, d)

\* the run so far had every read-and-write shorter than one frame period
every_frame_in_time == video_clock.slowest < frame_interval

\* C30: in the capture loop on integer clock ticks the deadline is the
\* accumulated one (one frame period per captured frame), the slack computed
\* after a frame is the distance from the clock to that deadline, the sleep
\* that follows lasts exactly that slack when it is positive and no time
\* otherwise, so never a negative time; and as long as every read-and-write
\* took less than one frame period, the number of frames recorded differs
\* from elapsed time times the rate by at most one frame (written in ticks:
\* frames times the period differs from the elapsed ticks by at most one
\* period).
C30_GovernorSleepsSlackAndHoldsRate ==
    /\ [](/\ video_clock.next_frame_time
               = video_recorder.frame_count * frame_interval
          /\ video_thread = "sleeping"
               => video_clock.sleep_time
                    = video_clock.next_frame_time - video_clock.time
          /\ every_frame_in_time
               => /\ video_recorder.frame_count * frame_interval
                       - video_clock.time <= frame_interval
                  /\ video_clock.time
                       - video_recorder.frame_count * frame_interval
                       <= frame_interval)
    /\ [][video_thread = "sleeping" /\ video_thread' # "sleeping"
            => /\ video_clock'.time >= video_clock.time
               /\ video_clock'.time - video_clock.time
                    = IF video_clock.next_frame_time > video_clock.time
                      THEN video_clock.next_frame_time - video_clock.time
                      ELSE 0]_vars

\* four frames recorded in time, the last one leaving slack to sleep through
C30_Witness ==
    /\ every_frame_in_time
    /\ video_clock.slowest > 0
    /\ video_recorder.frame_count = 4
    /\ video_thread = "running"
    /\ video_clock.time = 4 * frame_interval
    /\ video_clock.sleep_time \in 1..(frame_interval - 1)

\* C31: while the collector is active, packet_count is at most the number
\* of data rows that have been flushed to the session file, so that no
\* counted record is missing from the file if the process stops there.
C31_CountNeverAheadOfFlushedRows ==
    csi_collector.active =>
        csi_collector.packet_count <= Len(data_rows(files, csi_collector))

\* C32: whenever the collector is marked active, its CSV handle is open on
\* the session file, and the file begins with the 25-column header, which
\* occurs in it exactly once, before every data row.
C32_ActiveMeansOpenFileWithHeader ==
    csi_collector.active =>
        /\ csi_collector.csv_handle # Nothing
        /\ csi_collector.csv_writer # None
        /\ csi_collector.csv_file # Nothing
        /\ ValueOf(csi_collector.csv_handle).path = ValueOf(csi_collector.csv_file)
        /\ LET rows == files[ValueOf(csi_collector.csv_file)]
           IN  /\ Len(rows) >= 1
               /\ rows[1] = headers
               /\ Len(rows[1]) = 25
               /\ \A i \in 2..Len(rows) : rows[i] # headers

\* C33: a stop call on an active collector leaves it inactive with the file
\* closed and returns the packet count and the CSV path, whatever becomes
\* of chart generation; the chart path of the result is null when chart
\* generation fails and when no record was written, and is the chart of
\* the session file only when at least one record was written; it is that
\* chart when records were counted and chart generation succeeds.
C33_ChartFailureKeepsStopResult ==
    [][\A writable \in {{}, Devices}, chart_ok \in BOOLEAN :
          (csi_collector.active /\ CSICollector_stop(writable, chart_ok)) =>
             /\ ~csi_collector'.active
             /\ ~collection_active'
             /\ csi_collector'.csv_handle = Nothing
             /\ ret'.val = "dict"
             /\ ValueOf(ret'.result).packets = csi_collector.packet_count
             /\ ValueOf(ret'.result).csv_file = csi_collector.csv_file
             /\ ValueOf(ret'.result).chart_file \in
                   {Nothing, Some(chart_path(csi_collector.csv_file))}
             /\ ~chart_ok => ValueOf(ret'.result).chart_file = Nothing
             /\ ValueOf(ret'.result).chart_file # Nothing =>
                   Len(data_rows(files', csi_collector')) >= 1
             /\ (chart_ok /\ csi_collector.packet_count >= 1) =>
                   ValueOf(ret'.result).chart_file # Nothing]_vars

\* stop has returned the count of a session with records and a null chart
\* path: chart generation was triggered and failed
C33_Witness ==
    /\ ret.op = "stop"
    /\ ret.val = "dict"
    /\ ValueOf(ret.result).packets >= 1
    /\ ValueOf(ret.result).chart_file = Nothing
    /\ ~csi_collector.active
    /\ csi_collector.csv_handle = Nothing
    /\ Len(data_rows(files, csi_collector)) >= 1

\* the rows a collector has handed to its CSV writer, on disk or still
\* buffered, and its count
collector_view(fs, c) ==
    [rows |-> fs[ValueOf(c.csv_handle).path] \o ValueOf(c.csv_handle).buf,
     packet_count |-> c.packet_count]

receiver_view(fs, rv) ==
    [rows |-> fs[ValueOf(rv.csv_file_handle).path]
                \o ValueOf(rv.csv_file_handle).buf,
     packet_count |-> rv.packet_count]

\* the CSIReceiver that was started on the collector's path and has been
\* fed the lines behind the collector's data rows: none of its rows is
\* flushed
receiver_like(fs, c) ==
    [start_serial_mode(CSIReceiver_init, ValueOf(c.csv_file)[2])
        EXCEPT !.csv_file_handle[1].buf = data_rows(fs, c),
               !.packet_count = c.packet_count]

receiver_files(fs, c) ==
    start_serial_mode_files(fs, ValueOf(c.csv_file)[2])

\* C34: a collector and a receiver that have just been started hold the
\* same rows and the same count, and when a marker line is fed to an
\* active collector and to the receiver that holds the same rows and the
\* same count, both hold the same rows in the same order and the same
\* count afterwards (the timestamp being the same token in both).
C34_CollectorsProcessLinesAlike ==
    [][/\ \A opened \in {{}, Devices}, writable \in {{}, Devices} :
             CSICollector_start(CollectorFile, TRUE, opened, writable) =>
                collector_view(files', csi_collector')
                  = receiver_view(
                       start_serial_mode_files(files, CollectorFile[2]),
                       start_serial_mode(CSIReceiver_init, CollectorFile[2]))
       /\ \A in \in Inputs :
             (/\ CSICollector_add_data(in)
              /\ add_data_guard(csi_collector)
              /\ startswith_marker(line_of(in))) =>
                collector_view(files', csi_collector')
                  = receiver_view(
                       receiver_files(files, csi_collector),
                       process_serial_data(
                          receiver_like(files, csi_collector), line_of(in)))
      ]_vars

\* two marker lines, the second a truncated one, have gone through the
\* collector, and the receiver fed the same two lines holds the same rows
C34_Witness ==
    /\ ret = returned("add_data", "True")
    /\ csi_collector.packet_count = 2
    /\ csi_collector.csv_handle # Nothing
    /\ \E in1 \in FullInputs, in2 \in ShortInputs :
          /\ startswith_marker(line_of(in1))
          /\ startswith_marker(line_of(in2))
          /\ collector_view(files, csi_collector)
               = receiver_view(
                    start_serial_mode_files(files, CollectorFile[2]),
                    process_serial_data(
                       process_serial_data(
                          start_serial_mode(CSIReceiver_init, CollectorFile[2]),
                          line_of(in1)),
                       line_of(in2)))

\* C35: at any time at most one reader loop is running per device.
C35_OneReaderPerDevice ==
    \A d \in Devices : Cardinality(readers_on(d)) <= 1

\* C36: when CSICollector.stop, run by a stop request, closes the session
\* file and builds its result, the packet count of the result is the
\* number of data rows in the closed file.
C36_StopCountIsRowsInClosedFile ==
    [][\A t \in DOMAIN stop_req :
          (stop_req[t].pc = "cstop_close" /\ stop_req'[t].pc = "vstop") =>
             ValueOf(stop_req'[t].result).packets
               = Len(data_rows(files', csi_collector'))]_vars

\* reader r is inside add_data, past the test of the active flag
past_guard(rd) == rd.pc \in {"ad_write", "ad_flush", "ad_store"}

\* C37: a step of a reader that is inside add_data leaves the reader inside
\* add_data or back in its loop, never ended by an exception; once the
\* file is closed no step of a reader changes a file; and a reader that
\* finds the writer or the handle gone returns to its loop with the call
\* rejected, nothing counted.
C37_RacingAddDataIsRejectedQuietly ==
    [][\A r \in DOMAIN readers :
          (past_guard(readers[r]) /\ readers'[r] # readers[r]) =>
             /\ readers'[r].pc \in {"ad_flush", "ad_store", "poll"}
             /\ readers'[r].port = readers[r].port
             /\ csi_collector.csv_handle = Nothing =>
                   /\ files' = files
                   /\ csi_collector'.csv_handle = Nothing
             /\ (\/ readers[r].pc = "ad_write" /\ csi_collector.csv_writer = None
                 \/ readers[r].pc = "ad_flush" /\ csi_collector.csv_handle = Nothing) =>
                   /\ readers'[r].pc = "poll"
                   /\ accepted' = accepted
                   /\ csi_collector'.packet_count = csi_collector.packet_count
      ]_vars

\* a reader that had written its row is about to flush, and the stop
\* request has closed the file meanwhile
C37_Witness ==
    \E r \in DOMAIN readers, t \in DOMAIN stop_req :
        /\ readers[r].pc = "ad_flush"
        /\ ~csi_collector.active
        /\ csi_collector.csv_handle = Nothing
        /\ stop_req[t].pc = "vstop"
        /\ Len(data_rows(files, csi_collector)) >= 1

\* C38: while the collector is active and no add_data call has been
\* accepted since the start of the session, latest_rssi is unset.
C38_LatestRssiUnsetUntilFirstPacket ==
    (csi_collector.active /\ accepted = 0) =>
        csi_collector.latest_rssi = Nothing

\* C39: whenever the recorder's recording flag is set, its capture loop is
\* running.
C39_RecordingMeansLoopRuns ==
    video_recorder.recording => video_thread # "dead"

====
